---- MODULE Spec2Model ----
(***************************************************************************)
(* Model of the paid-stream client of atomic-stream-terminal.              *)
(*                                                                         *)
(* StreamClient (src/src/data/streams/x402.ts) owns one WebSocket, its     *)
(* lease token and its renewals.  Every handler of the client is one       *)
(* action; a handler that awaits is split at its awaits, the part after an *)
(* await being an action of its own (the continuation) that the event loop *)
(* may run at any later time.  Strings that the code trims are sequences   *)
(* of characters, so that trimming is computed and not assumed.            *)
(***************************************************************************)
EXTENDS Integers, Sequences, FiniteSets, Bags, TLC

\* ------------------------------------------------------------------ bounds
\* tokens the upstream service issues to one session (connect and renewals)
MaxToken == 2
\* renewals one session may have awaiting at the same time
MaxInflight == 2
\* entries in one add/remove call
MaxInputLen == 2
\* the largest confirmed total of a stream
MaxSpend == 8
\* the pairs the lookup service is asked for in one run
MaxLookups == 2
\* the largest capacity of a ring buffer
MaxCapacity == 3
\* the pushes into a ring buffer since it was constructed or cleared
MaxPush == 5
\* the seconds the clock of the store runs for
MaxTime == 62
\* the calls of the store's methods in one run
MaxCalls == 3
MaxFrames == 3
\* the calls of UpdateBatcher.add in one run
MaxAdds == 4

\* ------------------------------------------------------------ the sessions
\* two of the stream kinds index.ts configures
Sessions == {"token-ticker", "swap-quotes"}

\* the sessions the application sends add/remove calls to
WatchTargets == {"swap-quotes"}

\* schema paths: one per protocol version
SchemaPaths == <<<<"v1", "schema", "stream">>, <<"v2", "schema", "stream">>>>

\* parseSchemaVersion: the path must start with /v1/ or /v2/, otherwise v1.
\* A path is the sequence of its segments, so "/v2/" needs a second segment.
parseSchemaVersion(schemaPath) ==
  IF Len(schemaPath) >= 2 /\ schemaPath[1] \in {"v1", "v2"}
  THEN schemaPath[1]
  ELSE "v1"

\* ----------------------------------------------------------- watch entries
Range(seq) == {seq[i] : i \in 1..Len(seq)}

RECURSIVE trimStart(_)
trimStart(value) ==
  IF value # <<>> /\ Head(value) = " " THEN trimStart(Tail(value)) ELSE value

RECURSIVE trimEnd(_)
trimEnd(value) ==
  IF value # <<>> /\ value[Len(value)] = " "
  THEN trimEnd(SubSeq(value, 1, Len(value) - 1))
  ELSE value

\* String.prototype.trim
trim(value) == trimEnd(trimStart(value))

\* values.map(trim).filter(Boolean): the empty string is the only falsy one
normalizeList(values) ==
  SelectSeq([i \in 1..Len(values) |-> trim(values[i])], LAMBDA v : v # <<>>)

\* new Set(array) then Array.from: first occurrences, in insertion order
RECURSIVE newSet(_)
newSet(current) ==
  IF current = <<>> THEN <<>>
  ELSE LET init == newSet(SubSeq(current, 1, Len(current) - 1))
           v == current[Len(current)]
       IN IF v \in Range(init) THEN init ELSE Append(init, v)

\* a mergeList that reports every incoming entry as added
RECURSIVE mergeLoopAll(_, _, _)
mergeLoopAll(nextSet, added, incoming) ==
  IF incoming = <<>> THEN [next |-> nextSet, added |-> added]
  ELSE LET value == Head(incoming)
       IN mergeLoopAll(IF value \in Range(nextSet) THEN nextSet ELSE Append(nextSet, value),
                       Append(added, value), Tail(incoming))

\* the for-loop of mergeList
RECURSIVE mergeLoop(_, _, _)
mergeLoop(nextSet, added, incoming) ==
  IF incoming = <<>> THEN [next |-> nextSet, added |-> added]
  ELSE LET value == Head(incoming)
       IN IF value \in Range(nextSet)
          THEN mergeLoop(nextSet, added, Tail(incoming))
          ELSE mergeLoop(Append(nextSet, value), Append(added, value), Tail(incoming))

mergeList(current, incoming) == mergeLoop(newSet(current), <<>>, incoming)

\* the for-loop of subtractList: Set.delete is true only if the entry was there
RECURSIVE subtractLoop(_, _, _)
subtractLoop(nextSet, removed, incoming) ==
  IF incoming = <<>> THEN [next |-> nextSet, removed |-> removed]
  ELSE LET value == Head(incoming)
       IN IF value \in Range(nextSet)
          THEN subtractLoop(SelectSeq(nextSet, LAMBDA v : v # value),
                            Append(removed, value), Tail(incoming))
          ELSE subtractLoop(nextSet, removed, Tail(incoming))

subtractList(current, incoming) == subtractLoop(newSet(current), <<>>, incoming)

\* ---------------------------------------------------------- inbound frames
\* A frame is what one WebSocket message decodes to.  json: what JSON.parse
\* yields ("invalid" = it throws); op, type, now: the fields the shape
\* predicates read ("none" = absent, "nonstring" = present, not a string).
X402Ops == {"hello", "renewal_reminder", "payment_required", "renewed", "error"}

Frame(json, op, type, now) == [json |-> json, op |-> op, type |-> type, now |-> now]

Frames ==
  {Frame("invalid", "none", "none", "none"),
   Frame("null", "none", "none", "none"),
   Frame("array", "none", "none", "none")}
  \cup {Frame("record", op, "none", "none") : op \in X402Ops \cup {"none", "subscribe", "nonstring"}}
  \cup {Frame("record", "renewal_reminder", "ticker", "none")}
  \cup {Frame("record", "none", type, now) :
          type \in {"status", "ticker", "swap-quote", "nonstring"},
          now \in {"string", "none"}}

\* the frames of the steady state: a domain event, a status and the lease
\* controls
CoreFrames ==
  {Frame("record", "none", "ticker", "none"),
   Frame("record", "none", "status", "string"),
   Frame("record", "renewal_reminder", "none", "none"),
   Frame("record", "payment_required", "none", "none"),
   Frame("record", "renewed", "none", "none")}

\* safeJsonParse followed by `if (!decoded) return`: null and the parse
\* failure are both dropped
safeJsonParse(frame) == IF frame.json \in {"invalid", "null"} THEN "null" ELSE frame.json

isRecord(frame) == safeJsonParse(frame) = "record"

isWsX402Event(frame) == isRecord(frame) /\ frame.op \in X402Ops

isWsStatusEvent(frame) == isRecord(frame) /\ frame.type = "status" /\ frame.now = "string"

isWsEvent(frame) == isRecord(frame) /\ frame.type \notin {"none", "nonstring"}

\* ------------------------------------------------------------------- state
VARIABLES
  renewMethod,    \* config.renewMethod, one value for the whole application
  schemaPath,     \* config.schemaPath of each session
  options,        \* whether config.options is set
  watchPrograms,  \* config.watchPrograms
  watchAccounts,  \* config.watchAccounts (undefined is the empty list)
  watchMints,     \* config.watchMints
  conn,           \* where connect() is: idle, fetching, failed, done
  ws,             \* the field this.ws: "null" or "set"
  sock,           \* the socket itself: none, connecting, open, closing, aborted, closed
  currentToken,   \* this.currentToken, 0 is null
  renewUrl,       \* whether this.renewUrl is set
  urlToken,       \* the t parameter of the socket URL, 0 before connect
  inflight,       \* the handleX402 calls of each session that are awaiting (a bag)
  nextToken,      \* the next token the upstream service issues to the session
  replaced,       \* the tokens of the session a successful renewal has replaced
  opens,          \* how many times the "open" handler of the session has run
  inbandSent,     \* the token of the challenge whose renew_inband awaits its answer, or 0
  paused,         \* DashboardApp.paused
  connected,      \* DashboardApp.streamStates: the connected flag of each stream
  pendingCharges, \* DashboardApp.pendingCharges: stream -> hint, NoCharge if absent
  spendTotals,    \* DashboardApp.spendTotals: stream -> total, NoTotal if absent
  consumed,       \* the sum of the pending amounts `renewed` has moved into the total
  charged,        \* the sum of the schema payments recorded for the stream
  latestLeaseToken,     \* DashboardApp.latestLeaseToken, 0 is null
  leaseTokenWaiters,    \* how many resolvers DashboardApp.leaseTokenWaiters holds
  pendingSwapPoolPairs, \* DashboardApp.pendingSwapPoolPairs
  watchSwapPools,       \* DashboardApp.watchSwapPools, in insertion order
  microtasks,           \* the continuations that are ready to run, oldest first
  lookups,              \* the calls of lookupPoolsForPairs that await their answers
  lookedUp,             \* every pair input a lookup was issued for, with its origin
  awaited,              \* the pair inputs submitted while no lease token was known
  started,              \* where initializeDataSources is: new, streams, done
  stopped,              \* stop() has run
  capacity,       \* RingBuffer.capacity
  buffer,         \* RingBuffer.buffer: index -> item or "undefined"
  head,           \* RingBuffer.head
  tail,           \* RingBuffer.tail
  count,          \* RingBuffer.count
  pushed,         \* the items pushed since the buffer was constructed or cleared
  store,          \* the DashboardStore: prices, swaps, swapAlerts, timestamps, stats
  now,            \* Date.now(), in seconds
  calls,          \* the calls of the store's methods so far, oldest first
  phase,          \* where start() is: new, loading, asking, declined, context, the
                  \* stream whose connect() is awaited, done
  previews,       \* the charge preview of each stream: pending or loaded
  x402Context,    \* whether DashboardApp.x402Context is set
  enabled,        \* DashboardApp.streamStates: the enabled flag of each stream
  clients,        \* DashboardApp.streamClients: none, set or deleted
  shortcuts,      \* setupKeyboardShortcuts has run
  appWatchMints,      \* DashboardApp.watchMints, in insertion order
  watchReservePools,  \* DashboardApp.watchReservePools, in insertion order
  arrived,        \* the frames the "message" handler of each socket has been called with
  handled,        \* the frames a listener has applied to the store or the spend ledger
  updates,        \* UpdateBatcher.updates: the list of each type (<<>> is an absent key)
  flushInterval,  \* UpdateBatcher.flushInterval: set or null
  flushed,        \* the batches the flush callback was called with, in order
  adds,           \* the calls of add, in order, with whether destroy() had been called
  last,           \* the handler that ran last and its input
  trace           \* what that handler emitted, sent and requested, in order

vars == <<renewMethod, schemaPath, options, watchPrograms, watchAccounts, watchMints,
          conn, ws, sock, currentToken, renewUrl, urlToken, inflight, nextToken,
          replaced, opens, inbandSent, paused, connected,
          pendingCharges, spendTotals, consumed, charged,
          latestLeaseToken, leaseTokenWaiters, pendingSwapPoolPairs, watchSwapPools,
          microtasks, lookups, lookedUp, awaited, started, stopped,
          capacity, buffer, head, tail, count, pushed, store, now, calls,
          phase, previews, x402Context, enabled, clients, shortcuts,
          appWatchMints, watchReservePools, arrived, handled, updates, flushInterval, flushed, adds,
          last, trace>>

configVars == <<renewMethod, schemaPath, options, watchPrograms>>
watchVars == <<watchAccounts, watchMints>>
chargeVars == <<pendingCharges, spendTotals, consumed, charged>>
\* the state of the application outside its stream clients
poolVars == <<latestLeaseToken, leaseTokenWaiters, pendingSwapPoolPairs, watchSwapPools,
              microtasks, lookups, lookedUp, awaited, started, stopped>>
ringVars == <<capacity, buffer, head, tail, count, pushed>>
storeVars == <<store, now, calls>>
startVars == <<phase, previews, x402Context, enabled, clients, shortcuts>>
listVars == <<appWatchMints, watchReservePools>>
eventVars == <<arrived, handled>>
batchVars == <<updates, flushInterval, flushed, adds>>
appVars == <<chargeVars, poolVars, ringVars, storeVars, startVars, listVars, eventVars, batchVars>>
\* the state of the stream clients
clientVars == <<configVars, watchVars, conn, ws, sock, currentToken, renewUrl, urlToken,
                inflight, nextToken, replaced, opens, inbandSent>>

\* this.schemaVersion, set once by the constructor
schemaVersion(s) == parseSchemaVersion(schemaPath[s])

\* one entry of trace: k is emit (an event of the client), send (a message
\* written to the socket), http (a request issued), store (the
\* application applying a domain event) or state (the application
\* recording an error in the state of the stream)
Eff(k, name, tok, list) == [k |-> k, name |-> name, tok |-> tok, list |-> list]
Emit(name, tok) == Eff("emit", name, tok, <<>>)
Msg(op, tok, list) == Eff("send", op, tok, list)
Http(name, tok) == Eff("http", name, tok, <<>>)

NoFrame == Frame("none", "none", "none", "none")

\* null for an X402PriceHint, and an absent entry of pendingCharges
NoCharge == [amountRaw |-> 0, asset |-> "none"]
\* an absent entry of spendTotals
NoTotal == [totalRaw |-> 0, asset |-> "none"]

Last(act, s, frame, input, tok, prev, outcome) ==
  [act |-> act, s |-> s, frame |-> frame, input |-> input, tok |-> tok,
   prev |-> prev, outcome |-> outcome]

\* a send() that writes whatever the state of the socket is
sendAlways(wsField, readyState, message) == <<message>>

\* send(): nothing is written unless this.ws is set and its readyState is OPEN
send(wsField, readyState, message) ==
  IF wsField = "set" /\ readyState = "open" THEN <<message>> ELSE <<>>

\* the initial lists: no duplicates, as they come from the application's sets
IdLists == {<<>>, <<<<"a">>>>, <<<<"b">>>>, <<<<"a">>, <<"b">>>>, <<<<"b">>, <<"a">>>>}

\* a number of the program that may be undefined or not finite
Num(value) == [kind |-> "number", value |-> value]
Undefined == [kind |-> "undefined", value |-> 0]
NaN == [kind |-> "nan", value |-> 0]
Infinity == [kind |-> "infinity", value |-> 0]

\* Number.isFinite
isFinite(number) == number.kind = "number"

\* the pairs prices are stored for
PairKeys == {"SOL/USDC", "RAY/USDC"}

\* a quotient that is kept exact: num / den
Quotient(num, den) == [kind |-> "number", num |-> num, den |-> den]
NoQuotient == [kind |-> "undefined", num |-> 0, den |-> 1]

\* an absent entry of DashboardStore.prices
NoPrice == [has |-> FALSE, price |-> 0, changePct |-> NoQuotient]

\* config.swapHistoryLength and config.priceHistoryLength of the model's store
SwapHistoryLength == 2
PriceHistoryLength == 2
\* the capacity of the two timestamp rings
TimestampCapacity == 1000

\* new DashboardStore(config): a ring is the list toArray() returns
NewStore ==
  [prices |-> [pairKey \in PairKeys |-> NoPrice],
   priceHistory |-> [pairKey \in PairKeys |-> <<>>],
   swaps |-> <<>>,
   swapAlerts |-> <<>>,
   pools |-> <<>>,
   reserves |-> <<>>,
   swapTimestamps |-> <<>>,
   alertTimestamps |-> <<>>,
   stats |-> [totalSwaps |-> 0, totalSwapAlerts |-> 0, totalNotionalUsd |-> 0,
              swapsPerMinute |-> 0, alertsPerMinute |-> 0, largestSwapUsd |-> Undefined]]

\* null where a bigint or a string is expected
Null == [kind |-> "null", value |-> 0]

\* a preview that has not been loaded
NoPreview == [state |-> "pending", amountRaw |-> Null, asset |-> "", display |-> "none"]

\* two of the keys setupStoreSubscriptions adds under
BatchTypes == {"price", "stats"}

\* {}: no key
NoUpdates == [type \in BatchTypes |-> <<>>]

InitProgram ==
  /\ conn = [s \in Sessions |-> "idle"]
  /\ ws = [s \in Sessions |-> "null"]
  /\ sock = [s \in Sessions |-> "none"]
  /\ currentToken = [s \in Sessions |-> 0]
  /\ renewUrl = [s \in Sessions |-> FALSE]
  /\ urlToken = [s \in Sessions |-> 0]
  /\ inflight = [s \in Sessions |-> EmptyBag]
  /\ nextToken = [s \in Sessions |-> 1]
  /\ replaced = [s \in Sessions |-> {}]
  /\ opens = [s \in Sessions |-> 0]
  /\ inbandSent = [s \in Sessions |-> 0]
  /\ paused = FALSE
  /\ connected = [s \in Sessions |-> FALSE]
  /\ pendingCharges = [s \in Sessions |-> NoCharge]
  /\ spendTotals = [s \in Sessions |-> NoTotal]
  /\ consumed = [s \in Sessions |-> 0]
  /\ charged = [s \in Sessions |-> 0]
  /\ latestLeaseToken = 0
  /\ leaseTokenWaiters = 0
  /\ pendingSwapPoolPairs = <<>>
  /\ watchSwapPools = <<>>
  /\ microtasks = <<>>
  /\ lookups = <<>>
  /\ lookedUp = <<>>
  /\ awaited = {}
  /\ started = "new"
  /\ stopped = FALSE
  /\ store = NewStore
  /\ now = 0
  /\ calls = <<>>
  /\ phase = "new"
  /\ previews = [s \in Sessions |-> NoPreview]
  /\ x402Context = FALSE
  /\ enabled = [s \in Sessions |-> FALSE]
  /\ clients = [s \in Sessions |-> "none"]
  /\ shortcuts = FALSE
  /\ appWatchMints = <<>>
  /\ watchReservePools = <<>>
  /\ arrived = [s \in Sessions |-> <<>>]
  /\ handled = <<>>
  /\ updates = NoUpdates
  /\ flushInterval = "set"
  /\ flushed = <<>>
  /\ adds = <<>>
  /\ last = Last("init", "none", NoFrame, <<>>, 0, 0, "none")
  /\ trace = <<>>

\* new RingBuffer(n): an array of n holes
RingBuffer(n) ==
  /\ capacity = n
  /\ buffer = [i \in 0..(n - 1) |-> "undefined"]
  /\ head = 0
  /\ tail = 0
  /\ count = 0
  /\ pushed = <<>>

\* the state of everything that changes, before any handler has run
InitDynamic == InitProgram /\ RingBuffer(1)

\* the state after the StreamClient constructors have run.  Only in-band
\* renewal reads the schema version: HTTP renewal runs against a v1 path
\* (token-ticker) and a v2 path (swap-quotes), in-band renewal against
\* either path for token-ticker
Init ==
  /\ renewMethod \in {"http", "inband"}
  /\ schemaPath \in {[s \in Sessions |-> IF s \in v1 THEN SchemaPaths[1] ELSE SchemaPaths[2]] :
                       v1 \in {{}, {"token-ticker"}}}
  /\ renewMethod = "http" => schemaPath["token-ticker"] = SchemaPaths[1]
  /\ options = [s \in Sessions |-> s \in WatchTargets]
  /\ watchPrograms = [s \in Sessions |-> <<>>]
  /\ watchAccounts = [s \in Sessions |-> IF s \in WatchTargets THEN <<<<"a">>>> ELSE <<>>]
  /\ watchMints = [s \in Sessions |-> <<>>]
  /\ InitDynamic

\* ------------------------------------------------------------- connecting
\* setLeaseToken: the assignment (the 'lease' emission is in the trace)
setLeaseToken(s, token) == [currentToken EXCEPT ![s] = token]

\* connect() up to its await: the paid schema fetch is issued
connectCall(s) ==
  /\ conn[s] = "idle"
  /\ conn' = [conn EXCEPT ![s] = "fetching"]
  /\ UNCHANGED <<configVars, watchVars, ws, sock, currentToken, renewUrl, urlToken,
                 inflight, nextToken, replaced, opens, inbandSent>>

\* connect() called on a client that exists
connect(s) ==
  /\ connectCall(s)
  /\ last' = Last("connect", s, NoFrame, <<>>, 0, 0, "none")
  /\ trace' = <<Http("schema", 0)>>
  /\ UNCHANGED <<appVars, connected, paused>>

SchemaOutcomes == {"ok", "notOk", "badShape", "noToken", "mismatch"}

\* a connect() that starts over when the schema fetch fails
retriedConnect == "idle"

\* where connect() is once it has thrown: nothing in it runs again
failedConnect == "failed"

\* connect() after requestStreamSchema settles: any failure throws before the
\* token is stored and before the socket is created, and enableStream, the
\* caller, catches it and records it in the state of the stream
connectSchema(s, outcome) ==
  /\ conn[s] = "fetching"
  /\ IF outcome = "ok"
     THEN /\ nextToken[s] <= MaxToken
          /\ conn' = [conn EXCEPT ![s] = "done"]
          /\ currentToken' = setLeaseToken(s, nextToken[s])
          /\ urlToken' = [urlToken EXCEPT ![s] = nextToken[s]]
          /\ nextToken' = [nextToken EXCEPT ![s] = @ + 1]
          /\ renewUrl' = [renewUrl EXCEPT ![s] = TRUE]
          /\ ws' = [ws EXCEPT ![s] = "set"]
          /\ sock' = [sock EXCEPT ![s] = "connecting"]
          /\ trace' = <<Emit("lease", nextToken[s])>>
     ELSE /\ conn' = [conn EXCEPT ![s] = failedConnect]
          /\ trace' = <<Eff("state", "lastError", 0, <<>>)>>
          /\ UNCHANGED <<currentToken, urlToken, nextToken, renewUrl, ws, sock>>
  /\ connected' = [connected EXCEPT ![s] = IF outcome = "ok" THEN @ ELSE FALSE]
  /\ last' = Last("connectSchema", s, NoFrame, <<>>, 0, 0, outcome)
  /\ UNCHANGED <<appVars, configVars, watchVars, inflight, replaced, opens, paused, inbandSent>>

\* an applyOptionsAndWatchlists that asks for the state first
applyThenState(s, wsField, readyState) ==
  send(wsField, readyState, Msg("getState", 0, <<>>))
  \o (IF options[s] THEN send(wsField, readyState, Msg("setOptions", 0, <<>>)) ELSE <<>>)
  \o (IF Len(watchAccounts[s]) > 0
      THEN send(wsField, readyState, Msg("setAccounts", 0, watchAccounts[s])) ELSE <<>>)
  \o (IF Len(watchPrograms[s]) > 0
      THEN send(wsField, readyState, Msg("setPrograms", 0, watchPrograms[s])) ELSE <<>>)
  \o (IF Len(watchMints[s]) > 0
      THEN send(wsField, readyState, Msg("setMints", 0, watchMints[s])) ELSE <<>>)

\* applyOptionsAndWatchlists followed by send({op: "getState"})
applyOptionsAndWatchlists(s, wsField, readyState) ==
  (IF options[s] THEN send(wsField, readyState, Msg("setOptions", 0, <<>>)) ELSE <<>>)
  \o (IF Len(watchAccounts[s]) > 0
      THEN send(wsField, readyState, Msg("setAccounts", 0, watchAccounts[s])) ELSE <<>>)
  \o (IF Len(watchPrograms[s]) > 0
      THEN send(wsField, readyState, Msg("setPrograms", 0, watchPrograms[s])) ELSE <<>>)
  \o (IF Len(watchMints[s]) > 0
      THEN send(wsField, readyState, Msg("setMints", 0, watchMints[s])) ELSE <<>>)
  \o send(wsField, readyState, Msg("getState", 0, <<>>))

\* the "open" handler of the socket, with the application's 'connected'
\* listener
onOpen(s) ==
  /\ sock[s] = "connecting"
  /\ sock' = [sock EXCEPT ![s] = "open"]
  /\ last' = Last("onOpen", s, NoFrame, <<>>, 0, 0, "none")
  /\ trace' = <<Emit("connected", 0)>> \o applyOptionsAndWatchlists(s, ws[s], "open")
  /\ opens' = [opens EXCEPT ![s] = @ + 1]
  /\ connected' = [connected EXCEPT ![s] = TRUE]
  /\ UNCHANGED <<appVars, configVars, watchVars, conn, ws, currentToken, renewUrl, urlToken,
                 inflight, nextToken, replaced, paused, inbandSent>>

\* disconnect(): close the socket if there is one and forget it
disconnect(s) ==
  /\ ws[s] = "set"
  /\ ws' = [ws EXCEPT ![s] = "null"]
  /\ sock' = [sock EXCEPT ![s] = CASE sock[s] = "connecting" -> "aborted"
                                   [] sock[s] = "open" -> "closing"
                                   [] OTHER -> sock[s]]
  /\ last' = Last("disconnect", s, NoFrame, <<>>, 0, 0, "none")
  /\ trace' = <<>>
  /\ UNCHANGED <<appVars, connected, configVars, watchVars, conn, currentToken, renewUrl, urlToken,
                 inflight, nextToken, replaced, opens, paused, inbandSent>>

\* a 'disconnected' listener that leaves the stream marked connected
flagKept(s) == connected

\* the application's 'disconnected' listener
disconnectedFlag(s) == [connected EXCEPT ![s] = FALSE]

\* the "close" handler: the upstream closed the socket, or a close
\* completed; the application's 'disconnected' listener clears the flag
onClose(s) ==
  /\ sock[s] \in {"connecting", "open", "closing", "aborted"}
  /\ sock' = [sock EXCEPT ![s] = "closed"]
  /\ last' = Last("onClose", s, NoFrame, <<>>, 0, 0, "none")
  /\ trace' = <<Emit("disconnected", 0)>>
  /\ connected' = disconnectedFlag(s)
  /\ UNCHANGED <<appVars, configVars, watchVars, conn, ws, currentToken, renewUrl, urlToken,
                 inflight, nextToken, replaced, opens, paused, inbandSent>>

\* the "error" handler: the socket failed; it closes next
onError(s) ==
  /\ sock[s] \in {"connecting", "open"}
  /\ sock' = [sock EXCEPT ![s] = IF sock[s] = "open" THEN "closing" ELSE "aborted"]
  /\ last' = Last("onError", s, NoFrame, <<>>, 0, 0, "none")
  /\ trace' = <<Emit("error", 0)>>
  /\ UNCHANGED <<appVars, connected, configVars, watchVars, conn, ws, currentToken, renewUrl, urlToken,
                 inflight, nextToken, replaced, opens, paused, inbandSent>>

\* ------------------------------------------------------- the message handler
\* a dispatch that holds back frames while a renewal of the session awaits
dispatchWhenIdle(s, frame) ==
  IF inflight[s] # EmptyBag THEN <<>>
  ELSE IF isWsX402Event(frame) THEN <<Emit("x402", 0)>>
  ELSE (IF isWsStatusEvent(frame) THEN <<Emit("status", 0)>> ELSE <<>>)
       \o (IF isWsEvent(frame)
           THEN <<Emit("event", 0)>> \o (IF paused THEN <<>> ELSE <<Eff("store", "event", 0, <<>>)>>)
           ELSE <<>>)

\* a dispatch that holds back frames while a renewal of any session awaits
dispatchOneAtATime(s, frame) ==
  IF \E t \in Sessions \ {s} : inflight[t] # EmptyBag THEN <<>>
  ELSE IF isWsX402Event(frame) THEN <<Emit("x402", 0)>>
  ELSE (IF isWsStatusEvent(frame) THEN <<Emit("status", 0)>> ELSE <<>>)
       \o (IF isWsEvent(frame)
           THEN <<Emit("event", 0)>> \o (IF paused THEN <<>> ELSE <<Eff("store", "event", 0, <<>>)>>)
           ELSE <<>>)

\* the emissions of the "message" handler for one frame, with what the
\* application's 'event' listener does (it drops the event while paused)
dispatch(s, frame) ==
  IF isWsX402Event(frame) THEN <<Emit("x402", 0)>>
  ELSE (IF isWsStatusEvent(frame) THEN <<Emit("status", 0)>> ELSE <<>>)
       \o (IF isWsEvent(frame)
           THEN <<Emit("event", 0)>> \o (IF paused THEN <<>> ELSE <<Eff("store", "event", 0, <<>>)>>)
           ELSE <<>>)

\* the token of the socket URL, never refreshed
connectToken(s) == urlToken[s]

\* the token handleX402 passes to renewHttp and renewInband
renewalToken(s) == currentToken[s]

\* handleX402 up to its first await: "none" (returns at once), "http" (the
\* paid renewal POST is issued), "config" (in-band against a v1 schema: an
\* error is emitted) or "challenge" (the in-band challenge POST is issued)
handleX402(s, frame) ==
  IF ~isWsX402Event(frame) \/ ~renewUrl[s] \/ currentToken[s] = 0 THEN "none"
  ELSE IF frame.op \notin {"renewal_reminder", "payment_required"} THEN "none"
  ELSE IF renewMethod = "http" THEN "http"
  ELSE IF schemaVersion(s) # "v2" THEN "config"
  ELSE "challenge"

\* a handler that drops the token when the upstream confirms a renewal
tokenDroppedOnRenewed(s, frame) ==
  IF isWsX402Event(frame) /\ frame.op = "renewed" THEN 0 ELSE currentToken[s]

\* this.currentToken after the message handler: no frame carries a token,
\* and none, `renewed` included, makes handleX402 assign one
tokenAfterFrame(s, frame) == currentToken[s]

Pending(tok, stage, n) == [tok |-> tok, stage |-> stage, n |-> n]

\* the "message" handler, up to the first await of handleX402: what it does
\* to the client and what it emits
onMessageCall(s, frame) ==
  /\ sock[s] \in {"open", "closing"}
  /\ LET branch == handleX402(s, frame)
     IN /\ branch \in {"http", "challenge"} => BagCardinality(inflight[s]) < MaxInflight
        /\ inflight' =
             IF branch \in {"http", "challenge"}
             THEN [inflight EXCEPT ![s] = @ (+) SetToBag({Pending(renewalToken(s), branch, 0)})]
             ELSE inflight
        /\ trace' = dispatch(s, frame) \o
             (CASE branch = "http" -> <<Http("renew", renewalToken(s))>>
                [] branch = "challenge" -> <<Http("challenge", renewalToken(s))>>
                [] branch = "config" -> <<Emit("error", 0)>>
                [] OTHER -> <<>>)
  /\ currentToken' = [currentToken EXCEPT ![s] = tokenAfterFrame(s, frame)]
  /\ inbandSent' = IF isWsX402Event(frame) /\ frame.op = "renewed"
                   THEN [inbandSent EXCEPT ![s] = 0]
                   ELSE inbandSent
  /\ UNCHANGED <<configVars, watchVars, conn, ws, sock, renewUrl, urlToken, nextToken,
                 replaced, opens>>

\* the "message" handler of a client by itself
onMessage(s, frame) ==
  /\ onMessageCall(s, frame)
  /\ last' = Last("onMessage", s, frame, <<>>, inbandSent[s], currentToken[s], "none")
  /\ UNCHANGED <<appVars, connected, paused>>

\* ---------------------------------------------------------------- renewals
\* the awaiting calls of a session, and one of them settling
Awaiting(s) == BagToSet(inflight[s])
Settle(s, r) == [inflight EXCEPT ![s] = @ (-) SetToBag({r})]

\* a success path that announces the token the request was made with
renewedWithOldToken(s, token, oldToken) ==
  <<Emit("lease", token)>> \o send(ws[s], sock[s], Msg("renew_token", oldToken, <<>>))

\* handleX402 after renewHttp resolves: setLeaseToken emits 'lease', then
\* renew_token is sent
renewed(s, token, oldToken) ==
  <<Emit("lease", token)>> \o send(ws[s], sock[s], Msg("renew_token", token, <<>>))

\* a catch block that reports the failure and also tells the upstream
renewFailedAndSent(s) ==
  <<Emit("error", 0)>> \o send(ws[s], sock[s], Msg("renew_token", currentToken[s], <<>>))

\* the catch block of handleX402
renewFailed(s) == <<Emit("error", 0)>>

RenewOutcomes == {"ok", "notOk", "badShape"}

\* handleX402 after the await of renewHttp, in HTTP mode.  The upstream
\* answers a successful renewal with a token it has not issued before.
renewHttpDoneCall(s, r, outcome) ==
  /\ r \in Awaiting(s)
  /\ r.stage = "http"
  /\ inflight' = Settle(s, r)
  /\ IF outcome = "ok"
     THEN /\ nextToken[s] <= MaxToken
          /\ currentToken' = setLeaseToken(s, nextToken[s])
          /\ nextToken' = [nextToken EXCEPT ![s] = @ + 1]
          /\ replaced' = [replaced EXCEPT ![s] = @ \cup {r.tok} \cup ({currentToken[s]} \ {0})]
          /\ trace' = renewed(s, nextToken[s], r.tok)
     ELSE /\ trace' = renewFailed(s)
          /\ UNCHANGED <<currentToken, nextToken, replaced>>
  /\ UNCHANGED <<configVars, watchVars, conn, ws, sock, renewUrl, urlToken, opens, inbandSent>>

\* the renewal of a client by itself
renewHttpDone(s, r, outcome) ==
  /\ renewHttpDoneCall(s, r, outcome)
  /\ last' = Last("renewHttpDone", s, NoFrame, <<>>, r.tok, currentToken[s], outcome)
  /\ UNCHANGED <<appVars, connected, paused>>

\* what the in-band challenge POST can come back with: its status, whether
\* the body decodes to a payment-required set, the version of that set and
\* the number of requirements it accepts
Challenge(status, decodable, ver, n) ==
  [status |-> status, decodable |-> decodable, ver |-> ver, n |-> n]

Challenges ==
  {Challenge(200, FALSE, 0, 0), Challenge(402, FALSE, 0, 0), Challenge(402, TRUE, 1, 1)}
  \cup {Challenge(402, TRUE, 2, n) : n \in 0..2}

\* renewInband and the two checks that follow it: does the challenge pass
challengeAccepted(c) == c.status = 402 /\ c.decodable /\ c.ver = 2 /\ c.n # 0

\* handleX402 after the await of renewInband: a good challenge goes on to
\* createPaymentPayload (the next await), anything else is caught
renewInbandDone(s, r, c) ==
  /\ r \in Awaiting(s)
  /\ r.stage = "challenge"
  /\ IF challengeAccepted(c)
     THEN /\ inflight' = [inflight EXCEPT
                            ![s] = (@ (-) SetToBag({r})) (+) SetToBag({Pending(r.tok, "signing", c.n)})]
          /\ trace' = <<Eff("sign", "createPaymentPayload", 0, <<>>)>>
     ELSE /\ inflight' = Settle(s, r)
          /\ trace' = renewFailed(s)
  /\ last' = Last("renewInbandDone", s, NoFrame, c, r.tok, currentToken[s],
                  IF challengeAccepted(c) THEN "ok" ELSE "failed")
  /\ UNCHANGED <<appVars, connected, configVars, watchVars, conn, ws, sock, currentToken, renewUrl, urlToken,
                 nextToken, replaced, opens, paused, inbandSent>>

\* what createPaymentPayload can come back with: it throws, or it returns a
\* payload of some shape and version whose accepted requirement is one of
\* the challenge's
Payload(throws, shapeOk, ver, accepted) ==
  [throws |-> throws, shapeOk |-> shapeOk, ver |-> ver, accepted |-> accepted]

Payloads(n) ==
  {Payload(TRUE, FALSE, 0, 0), Payload(FALSE, FALSE, 2, 1), Payload(FALSE, TRUE, 1, 1)}
  \cup {Payload(FALSE, TRUE, 2, k) : k \in 1..n}

\* a check of the payload that stops at its shape: isPaymentPayload takes a
\* payload of either version
payloadShapeOk(p) == ~p.throws /\ p.shapeOk

\* isPaymentPayload and the version check that follows it
payloadAccepted(p) == ~p.throws /\ p.shapeOk /\ p.ver = 2

\* const [selected] = paymentRequired.accepts: the first requirement of the
\* challenge
selectedRequirement == 1

\* handleX402 after the await of createPaymentPayload: renew_inband carries
\* the selected requirement (the list field of the message) and the
\* payload (the tok field is the requirement the payload was signed for)
paymentPayloadDone(s, r, p) ==
  /\ r \in Awaiting(s)
  /\ r.stage = "signing"
  /\ p \in Payloads(r.n)
  /\ inflight' = Settle(s, r)
  /\ trace' = IF payloadAccepted(p)
              THEN send(ws[s], sock[s], Msg("renew_inband", p.accepted, <<selectedRequirement>>))
              ELSE renewFailed(s)
  /\ inbandSent' = IF payloadAccepted(p) /\ ws[s] = "set" /\ sock[s] = "open"
                   THEN [inbandSent EXCEPT ![s] = r.tok]
                   ELSE inbandSent
  /\ last' = Last("paymentPayloadDone", s, NoFrame, p, r.tok, currentToken[s],
                  IF payloadAccepted(p) THEN "ok" ELSE "failed")
  /\ UNCHANGED <<appVars, connected, configVars, watchVars, conn, ws, sock, currentToken, renewUrl, urlToken,
                 nextToken, replaced, opens, paused>>

\* ------------------------------------------------------ watchlist changes
\* what one entry of an add/remove call can be: an identifier, an
\* identifier with blanks around it, a blank string
RawEntries == {<<"a">>, <<" ", "b", " ">>, <<" ">>}

RECURSIVE ListsUpTo(_)
ListsUpTo(n) ==
  IF n = 0 THEN {<<>>}
  ELSE LET shorter == ListsUpTo(n - 1)
       IN shorter \cup {Append(l, e) : l \in {x \in shorter : Len(x) = n - 1}, e \in RawEntries}

InputLists == ListsUpTo(MaxInputLen)

addMints(s, mints) ==
  /\ LET normalized == normalizeList(mints)
         merged == mergeList(watchMints[s], normalized)
     IN IF Len(normalized) = 0 \/ Len(merged.added) = 0
        THEN /\ trace' = <<>>
             /\ UNCHANGED watchMints
        ELSE /\ watchMints' = [watchMints EXCEPT ![s] = merged.next]
             /\ trace' = send(ws[s], sock[s], Msg("addMints", 0, merged.added))
  /\ last' = Last("addMints", s, NoFrame, mints, 0, 0, "none")
  /\ UNCHANGED <<appVars, connected, configVars, watchAccounts, conn, ws, sock, currentToken, renewUrl, urlToken,
                 inflight, nextToken, replaced, opens, paused, inbandSent>>

removeMints(s, mints) ==
  /\ LET normalized == normalizeList(mints)
         rest == subtractList(watchMints[s], normalized)
     IN IF Len(normalized) = 0 \/ Len(rest.removed) = 0
        THEN /\ trace' = <<>>
             /\ UNCHANGED watchMints
        ELSE /\ watchMints' = [watchMints EXCEPT ![s] = rest.next]
             /\ trace' = send(ws[s], sock[s], Msg("removeMints", 0, rest.removed))
  /\ last' = Last("removeMints", s, NoFrame, mints, 0, 0, "none")
  /\ UNCHANGED <<appVars, connected, configVars, watchAccounts, conn, ws, sock, currentToken, renewUrl, urlToken,
                 inflight, nextToken, replaced, opens, paused, inbandSent>>

addAccounts(s, accounts) ==
  /\ LET normalized == normalizeList(accounts)
         merged == mergeList(watchAccounts[s], normalized)
     IN IF Len(normalized) = 0 \/ Len(merged.added) = 0
        THEN /\ trace' = <<>>
             /\ UNCHANGED watchAccounts
        ELSE /\ watchAccounts' = [watchAccounts EXCEPT ![s] = merged.next]
             /\ trace' = send(ws[s], sock[s], Msg("addAccounts", 0, merged.added))
  /\ last' = Last("addAccounts", s, NoFrame, accounts, 0, 0, "none")
  /\ UNCHANGED <<appVars, connected, configVars, watchMints, conn, ws, sock, currentToken, renewUrl, urlToken,
                 inflight, nextToken, replaced, opens, paused, inbandSent>>

removeAccounts(s, accounts) ==
  /\ LET normalized == normalizeList(accounts)
         rest == subtractList(watchAccounts[s], normalized)
     IN IF Len(normalized) = 0 \/ Len(rest.removed) = 0
        THEN /\ trace' = <<>>
             /\ UNCHANGED watchAccounts
        ELSE /\ watchAccounts' = [watchAccounts EXCEPT ![s] = rest.next]
             /\ trace' = send(ws[s], sock[s], Msg("removeAccounts", 0, rest.removed))
  /\ last' = Last("removeAccounts", s, NoFrame, accounts, 0, 0, "none")
  /\ UNCHANGED <<appVars, connected, configVars, watchMints, conn, ws, sock, currentToken, renewUrl, urlToken,
                 inflight, nextToken, replaced, opens, paused, inbandSent>>

\* ----------------------------------------------------------------- charges
\* BigInt(text): the integer a string denotes; it throws on any other string
BigInt(text) ==
  CASE text = "0" -> [ok |-> TRUE, value |-> 0]
    [] text = "3" -> [ok |-> TRUE, value |-> 3]
    [] text = "5" -> [ok |-> TRUE, value |-> 5]
    [] OTHER -> [ok |-> FALSE, value |-> 0]

\* a parser that takes an amount it cannot read for zero
parseAsZero(amount, asset) ==
  IF amount = "" \/ asset = "" THEN NoCharge
  ELSE [amountRaw |-> BigInt(amount).value, asset |-> asset]

\* the end of parsePriceHint and of parsePaymentCharge: null unless there is
\* an amount and an asset and BigInt accepts the amount ("" is a missing one)
parseCharge(amount, asset) ==
  IF amount = "" \/ asset = "" THEN NoCharge
  ELSE IF BigInt(amount).ok THEN [amountRaw |-> BigInt(amount).value, asset |-> asset]
  ELSE NoCharge

\* the loop of parsePriceHint over the parts of the hint; a part is the list
\* of the fields that "=" separates in it
RECURSIVE hintLoop(_, _, _)
hintLoop(parts, amount, asset) ==
  IF parts = <<>> THEN [amount |-> amount, asset |-> asset]
  ELSE LET part == Head(parts)
           key == IF Len(part) >= 1 THEN part[1] ELSE ""
           value == IF Len(part) >= 2 THEN part[2] ELSE ""
       IN IF key = "" \/ value = "" THEN hintLoop(Tail(parts), amount, asset)
          ELSE IF key \in {"amount", "maxAmount"} THEN hintLoop(Tail(parts), value, asset)
          ELSE IF key = "asset" THEN hintLoop(Tail(parts), amount, value)
          ELSE hintLoop(Tail(parts), amount, asset)

parsePriceHint(hint) ==
  LET found == hintLoop(hint, "", "")
  IN parseCharge(found.amount, found.asset)

\* the price hints of the model, as lists of parts
Hints ==
  { << <<"amount", "3">>, <<"asset", "USDC">> >>,
    << <<"asset", "USDC">>, <<"maxAmount", "5">> >>,
    << <<"amount", "0">>, <<"asset", "USDC">> >>,
    << <<"amount", "1.5">>, <<"asset", "USDC">> >>,
    << <<"amount", "abc">>, <<"asset", "USDC">> >>,
    << <<"amount", "">>, <<"asset", "USDC">> >>,
    << <<"asset", "USDC">> >>,
    << <<"amount", "3">> >>,
    << <<"">> >> }

\* a lease-control event as the application's 'x402' listener receives it:
\* its op and the two price hints it may carry (<<>> is an absent one)
X402Event(op, http, inband) == [op |-> op, http |-> http, inband |-> inband]

X402Events ==
  {X402Event(op, hint, <<>>) : op \in {"renewal_reminder", "payment_required"},
                                 hint \in Hints \cup {<<>>}}
  \cup {X402Event("renewal_reminder", <<>>, hint) : hint \in Hints}
  \cup {X402Event("renewed", <<>>, <<>>), X402Event("error", <<>>, <<>>)}

\* event.renew?.http?.priceHint ?? event.renew?.inband?.priceHint
hintOf(event) == IF event.http # <<>> THEN event.http ELSE event.inband

\* a `renewed` branch that keeps the pending entry
pendingKept(s) == pendingCharges

\* the `renewed` branch: the pending entry is deleted
pendingCleared(s) == [pendingCharges EXCEPT ![s] = NoCharge]

\* a reminder branch that adds the hint to the total at once
totalWithHint(s, parsed) ==
  [spendTotals EXCEPT ![s] = [totalRaw |-> @.totalRaw + parsed.amountRaw, asset |-> parsed.asset]]

\* the reminder branch: a total is created at 0 if the stream has none
totalOnHint(s, parsed) ==
  IF spendTotals[s] = NoTotal
  THEN [spendTotals EXCEPT ![s] = [totalRaw |-> 0, asset |-> parsed.asset]]
  ELSE spendTotals

\* the ledger
Ledger(pending, totals, moved) == [pendingCharges |-> pending, spendTotals |-> totals, consumed |-> moved]

\* handleX402Event: what it leaves in the ledger
ledgerAfter(s, event) ==
  CASE event.op \in {"renewal_reminder", "payment_required"} ->
         LET hint == hintOf(event)
             parsed == IF hint = <<>> THEN NoCharge ELSE parsePriceHint(hint)
         IN IF parsed # NoCharge
            THEN Ledger([pendingCharges EXCEPT ![s] = parsed], totalOnHint(s, parsed), consumed)
            ELSE Ledger(pendingCharges, spendTotals, consumed)
    [] event.op = "renewed" ->
         LET pending == pendingCharges[s]
         IN IF pending = NoCharge
            THEN Ledger(pendingCharges, spendTotals, consumed)
            ELSE Ledger(pendingCleared(s),
                        [spendTotals EXCEPT ![s] =
                           [totalRaw |-> @.totalRaw + pending.amountRaw, asset |-> pending.asset]],
                        [consumed EXCEPT ![s] = @ + pending.amountRaw])
    [] OTHER -> Ledger(pendingCharges, spendTotals, consumed)

\* handleX402Event as a listener: the ledger afterwards (the totals stay
\* within MaxSpend)
handleX402EventCall(s, event) ==
  /\ ledgerAfter(s, event).spendTotals[s].totalRaw <= MaxSpend
  /\ pendingCharges' = ledgerAfter(s, event).pendingCharges
  /\ spendTotals' = ledgerAfter(s, event).spendTotals
  /\ consumed' = ledgerAfter(s, event).consumed

\* handleX402Event, the application's 'x402' listener (last.prev is the
\* pending amount of the stream before the event)
handleX402Event(s, event) ==
  /\ handleX402EventCall(s, event)
  /\ trace' = IF event.op = "error" THEN <<Eff("state", "lastError", 0, <<>>)>> ELSE <<>>
  /\ last' = Last("handleX402Event", s, NoFrame, event, 0, pendingCharges[s].amountRaw, "none")
  /\ UNCHANGED <<clientVars, poolVars, ringVars, storeVars, startVars, listVars, eventVars, batchVars, paused, connected, charged>>

\* a payment requirement: whether its other fields have the shape of a
\* requirement, and its amount, maxAmountRequired, asset ("none" is a field
\* that is absent or not a string) and resource (<<>> is an absent one)
Requirement(rest, amount, maxAmountRequired, asset, resource) ==
  [rest |-> rest, amount |-> amount, maxAmountRequired |-> maxAmountRequired,
   asset |-> asset, resource |-> resource]

isPaymentRequirementsV1(value) ==
  value.rest /\ value.maxAmountRequired # "none" /\ value.resource # <<>> /\ value.asset # "none"

isPaymentRequirementsV2(value) ==
  value.rest /\ value.amount # "none" /\ value.asset # "none"

isPaymentRequirements(value) == isPaymentRequirementsV1(value) \/ isPaymentRequirementsV2(value)

parsePaymentCharge(value) ==
  IF ~isPaymentRequirements(value) THEN NoCharge
  ELSE LET amount == IF value.amount # "none" THEN value.amount
                     ELSE IF value.maxAmountRequired # "none" THEN value.maxAmountRequired
                     ELSE ""
       IN parseCharge(amount, value.asset)

\* the resource paths of the model, as lists of segments
TickerSchema == <<"v2", "schema", "stream", "token-ticker">>
QuotesSchema == <<"v2", "schema", "stream", "swap-quotes">>
ResourcePaths ==
  {TickerSchema, QuotesSchema, <<"v2", "renew", "stream", "token-ticker">>,
   <<"v2", "schema", "stream", "bogus">>, <<"v2", "schema", "stream">>, <<"health">>}

Requirements ==
  {Requirement(TRUE, "3", "none", "USDC", <<>>),
   Requirement(TRUE, "none", "5", "USDC", QuotesSchema),
   Requirement(TRUE, "1.5", "none", "USDC", <<>>),
   Requirement(TRUE, "abc", "5", "USDC", <<>>),
   Requirement(TRUE, "", "none", "USDC", <<>>),
   Requirement(TRUE, "3", "none", "", <<>>),
   Requirement(TRUE, "3", "none", "none", <<>>),
   Requirement(FALSE, "3", "none", "USDC", <<>>)}

\* what onAfterPaymentCreation hands over: the resource url of the payment
\* required, that of the payment payload (<<>> is an absent one), and the
\* selected requirements
PaymentCreated(required, payload, selected) ==
  [paymentRequired |-> required, paymentPayload |-> payload, selectedRequirements |-> selected]

Payments ==
  {PaymentCreated(path, <<>>, Requirement(TRUE, "3", "none", "USDC", <<>>)) : path \in ResourcePaths}
  \cup {PaymentCreated(<<>>, TickerSchema, r) : r \in Requirements}
  \cup {PaymentCreated(<<>>, QuotesSchema, r) : r \in Requirements}
  \cup {PaymentCreated(<<>>, <<>>, r) : r \in Requirements}

extractX402ResourceUrl(context) ==
  IF context.paymentRequired # <<>> THEN context.paymentRequired
  ELSE IF context.paymentPayload # <<>> THEN context.paymentPayload
  ELSE context.selectedRequirements.resource

\* the segment that follows the marker /schema/stream/, "" if there is none
RECURSIVE afterMarker(_)
afterMarker(path) ==
  IF Len(path) < 2 THEN ""
  ELSE IF path[1] = "schema" /\ path[2] = "stream"
       THEN (IF Len(path) >= 3 THEN path[3] ELSE "")
       ELSE afterMarker(Tail(path))

isStreamId(value) == value \in Sessions

\* a parseSchemaStreamId that takes the stream of a renewal path as well
parseAnyStreamId(path) ==
  IF path # <<>> /\ isStreamId(path[Len(path)]) THEN path[Len(path)] ELSE ""

\* parseSchemaStreamId: null ("") for a renewal path, a path without the
\* marker and an unknown stream
parseSchemaStreamId(path) ==
  IF \E i \in 1..(Len(path) - 1) : path[i] = "renew" THEN ""
  ELSE IF isStreamId(afterMarker(path)) THEN afterMarker(path) ELSE ""

\* the stream and the charge recordSchemaSpend applies; the stream is "" if
\* it returns before applySpendCharge
schemaCharge(context) ==
  LET resourceUrl == extractX402ResourceUrl(context)
      streamId == IF resourceUrl = <<>> THEN "" ELSE parseSchemaStreamId(resourceUrl)
      charge == parsePaymentCharge(context.selectedRequirements)
  IN [streamId |-> IF charge = NoCharge THEN "" ELSE streamId, charge |-> charge]

\* applySpendCharge
applySpendCharge(streamId, charge) ==
  [spendTotals EXCEPT ![streamId] =
     [totalRaw |-> @.totalRaw + charge.amountRaw,
      asset |-> IF @ = NoTotal THEN charge.asset ELSE @.asset]]

\* recordSchemaSpend, the onAfterPaymentCreation hook
recordSchemaSpend(context) ==
  /\ LET applied == schemaCharge(context)
     IN IF applied.streamId = ""
        THEN UNCHANGED <<spendTotals, charged>>
        ELSE /\ spendTotals[applied.streamId].totalRaw + applied.charge.amountRaw <= MaxSpend
             /\ spendTotals' = applySpendCharge(applied.streamId, applied.charge)
             /\ charged' = [charged EXCEPT ![applied.streamId] = @ + applied.charge.amountRaw]
  /\ trace' = <<>>
  /\ last' = Last("recordSchemaSpend", "none", NoFrame, context, 0, 0, "none")
  /\ UNCHANGED <<clientVars, poolVars, ringVars, storeVars, startVars, listVars, eventVars, batchVars, paused, connected, pendingCharges, consumed>>

\* ------------------------------------------------------------ pool lookups
\* the characters that separate the two mints of a pair input
Separators == {"/", ":"}

\* String.split on a character class: the pieces between the separators
RECURSIVE splitLoop(_, _, _, _)
splitLoop(seps, pieces, piece, rest) ==
  IF rest = <<>> THEN Append(pieces, piece)
  ELSE IF Head(rest) \in seps
       THEN splitLoop(seps, Append(pieces, piece), <<>>, Tail(rest))
       ELSE splitLoop(seps, pieces, Append(piece, Head(rest)), Tail(rest))

split(value, seps) == splitLoop(seps, <<>>, <<>>, value)

\* Array.join(",")
RECURSIVE join(_)
join(values) ==
  IF values = <<>> THEN <<>>
  ELSE IF Len(values) = 1 THEN values[1]
       ELSE values[1] \o <<",">> \o join(Tail(values))

\* Array.flat
RECURSIVE flat(_)
flat(lists) == IF lists = <<>> THEN <<>> ELSE Head(lists) \o flat(Tail(lists))

\* parseList: split on white space and commas, trim, drop the empty pieces
parseList(value) ==
  IF value = <<>> THEN <<>> ELSE normalizeList(split(value, {" ", ","}))

\* parsePairList: the first two pieces of each entry, when both are there
parsePairList(value) ==
  LET entries == parseList(value)
      pairOf(entry) ==
        LET parts == split(entry, Separators)
            baseMint == trim(parts[1])
            quoteMint == IF Len(parts) >= 2 THEN trim(parts[2]) ELSE <<>>
        IN [baseMint |-> baseMint, quoteMint |-> quoteMint]
      all == [i \in 1..Len(entries) |-> pairOf(entries[i])]
  IN SelectSeq(all, LAMBDA pair : pair.baseMint # <<>> /\ pair.quoteMint # <<>>)

\* the symbols the mint labels know, in upper case, and their mints
labelIndex == [key \in {<<"S">>} |-> <<"m">>]

\* String.toUpperCase over the letters the model uses
toUpperCase(value) == [i \in 1..Len(value) |-> IF value[i] = "s" THEN "S" ELSE value[i]]

\* resolveMintInput: a known symbol becomes its mint, anything else is kept
resolveMintInput(value) ==
  LET trimmed == trim(value)
      key == toUpperCase(trimmed)
  IN IF trimmed = <<>> THEN <<>>
     ELSE IF key \in DOMAIN labelIndex THEN labelIndex[key] ELSE trimmed

\* splitPoolInputs: an entry with a separator is a pair input
splitPoolInputs(values) ==
  [poolIds |-> SelectSeq(values, LAMBDA item : Range(item) \cap Separators = {}),
   pairInputs |-> SelectSeq(values, LAMBDA item : Range(item) \cap Separators # {})]

\* uniqueList: trim, drop the empty values, keep the first of equal values
uniqueList(values) == newSet(normalizeList(values))

\* mergeNewItems on a Set: the set afterwards and the items that were new
mergeNewItems(target, incoming) == mergeLoop(target, <<>>, incoming)

\* resolvePoolsFromInput up to its await: the raw identifiers, the pairs to
\* look up, and whether the lookup is issued (a lookup client is configured)
resolveInput(entries) ==
  LET parts == splitPoolInputs(entries)
      parsed == parsePairList(join(parts.pairInputs))
      resolved == [i \in 1..Len(parsed) |->
                     [baseMint |-> resolveMintInput(parsed[i].baseMint),
                      quoteMint |-> resolveMintInput(parsed[i].quoteMint)]]
      pairs == SelectSeq(resolved, LAMBDA pair : pair.baseMint # <<>> /\ pair.quoteMint # <<>>)
  IN [poolIds |-> parts.poolIds, pairs |-> pairs,
      lookup |-> pairs # <<>> /\ latestLeaseToken # 0]

\* the pools the lookup service knows for a pair
PoolsOf(pair) ==
  IF pair.baseMint = <<"m">> /\ pair.quoteMint = <<"U">> THEN <<<<"p">>, <<"q">>>>
  ELSE IF pair.baseMint = <<"U">> /\ pair.quoteMint = <<"m">> THEN <<<<"q">>>>
  ELSE <<<<"r">>>>

\* how one request of the lookup client can end
LookupOutcomes == {"notOk", "invalid", "network", "empty", "found"}

\* PoolLookupClient.lookupPair: it throws unless the response is OK and valid
lookupPair(pair, outcome) ==
  IF outcome \in {"notOk", "invalid", "network"}
  THEN [threw |-> TRUE, pools |-> <<>>]
  ELSE [threw |-> FALSE, pools |-> IF outcome = "empty" THEN <<>> ELSE PoolsOf(pair)]

\* lookupPoolsForPairs with every failure thrown to the caller
lookupAllOrNothing(pairs, outcomes) ==
  LET responses == [i \in 1..Len(pairs) |-> lookupPair(pairs[i], outcomes[i])]
      failed == {i \in 1..Len(pairs) : responses[i].threw}
  IN [pools |-> IF failed = {} THEN uniqueList(flat([i \in 1..Len(pairs) |-> responses[i].pools]))
                ELSE <<>>,
      errors |-> Cardinality(failed)]

\* lookupPoolsForPairs after its await: a pair whose request threw is
\* logged and contributes nothing
lookupPoolsForPairs(pairs, outcomes) ==
  LET responses == [i \in 1..Len(pairs) |-> lookupPair(pairs[i], outcomes[i])]
      results == [i \in 1..Len(pairs) |->
                    IF responses[i].threw THEN <<>> ELSE responses[i].pools]
  IN [pools |-> uniqueList(flat(results)),
      errors |-> Cardinality({i \in 1..Len(pairs) : responses[i].threw})]

\* StreamClient.addAccounts as the application calls it: the session's list
\* afterwards and what is written to the socket
clientAddAccounts(s, accounts) ==
  LET normalized == normalizeList(accounts)
      merged == mergeList(watchAccounts[s], normalized)
  IN IF Len(normalized) = 0 \/ Len(merged.added) = 0
     THEN [accounts |-> watchAccounts[s], sent |-> <<>>]
     ELSE [accounts |-> merged.next,
           sent |-> send(ws[s], sock[s], Msg("addAccounts", 0, merged.added))]

\* addWatchSwapPools and addSwapPoolsToStreams: the new pools go to the set
\* and to the swap-quotes client (the only swap stream of the model)
addWatchSwapPools(pools, sofar) ==
  LET merged == mergeNewItems(watchSwapPools, pools)
      client == IF clients["swap-quotes"] = "set"
                THEN clientAddAccounts("swap-quotes", merged.added)
                ELSE [accounts |-> watchAccounts["swap-quotes"], sent |-> <<>>]
  IN /\ watchSwapPools' = merged.next
     /\ watchAccounts' = [watchAccounts EXCEPT !["swap-quotes"] = client.accounts]
     /\ trace' = sofar \o (IF merged.added = <<>> THEN <<>> ELSE client.sent)

\* a continuation in the microtask queue
Task(kind, pools) == [kind |-> kind, pools |-> pools]

\* an awaited lookup: who asked, the raw identifiers and the pairs
Lookup(origin, poolIds, pairs) == [origin |-> origin, poolIds |-> poolIds, pairs |-> pairs]

\* the entries of lookedUp and awaited for the pairs of one input
Asked(origin, pairs) == [i \in 1..Len(pairs) |-> [origin |-> origin, pair |-> pairs[i]]]

\* waitForLeaseToken as resolvePendingPoolPairs awaits it: with a token the
\* continuation is ready at once, without one a resolver is registered
waitForLeaseToken(token, waiters, tasks) ==
  IF token # 0
  THEN [waiters |-> waiters, tasks |-> Append(tasks, Task("afterWait", <<>>))]
  ELSE [waiters |-> waiters + 1, tasks |-> tasks]

\* resolvePendingPoolPairs up to its first await (a lookup client is
\* configured and the swap-quotes stream is enabled)
pendingCall(token, waiters, tasks) ==
  IF pendingSwapPoolPairs = <<>>
  THEN [waiters |-> waiters, tasks |-> tasks]
  ELSE waitForLeaseToken(token, waiters, tasks)

\* initializeDataSources up to its first await, for the swap-quotes stream:
\* the configured watch accounts are split, the raw identifiers go to the set
\* and to the client that enableStream constructs, the pair inputs wait
initializeDataSources(accounts) ==
  /\ started = "new"
  /\ microtasks = <<>>
  /\ started' = "streams"
  /\ LET parts == splitPoolInputs(accounts)
     IN /\ watchSwapPools' = mergeNewItems(watchSwapPools, parts.poolIds).next
        /\ pendingSwapPoolPairs' = pendingSwapPoolPairs \o parts.pairInputs
        /\ watchAccounts' = [watchAccounts EXCEPT !["swap-quotes"] = parts.poolIds]
        /\ awaited' = awaited \cup Range(Asked("config", resolveInput(parts.pairInputs).pairs))
  /\ clients' = [clients EXCEPT !["swap-quotes"] = "set"]
  /\ trace' = <<>>
  /\ last' = Last("initializeDataSources", "none", NoFrame, accounts, 0, 0, "none")
  /\ UNCHANGED <<configVars, watchMints, conn, ws, sock, currentToken, renewUrl, urlToken,
                 inflight, nextToken, replaced, opens, inbandSent, chargeVars, ringVars, storeVars, phase, previews, x402Context,
                 enabled, shortcuts, listVars, eventVars, batchVars,
                 paused, connected, latestLeaseToken, leaseTokenWaiters, microtasks,
                 lookups, lookedUp, stopped>>

\* the last statement of initializeDataSources: await resolvePendingPoolPairs()
resolvePendingPoolPairs ==
  /\ started = "streams"
  /\ microtasks = <<>>
  /\ started' = "done"
  /\ LET call == pendingCall(latestLeaseToken, leaseTokenWaiters, microtasks)
     IN /\ leaseTokenWaiters' = call.waiters
        /\ microtasks' = call.tasks
  /\ trace' = <<>>
  /\ last' = Last("resolvePendingPoolPairs", "none", NoFrame, <<>>, 0, 0, "none")
  /\ UNCHANGED <<clientVars, chargeVars, ringVars, storeVars, startVars, listVars, eventVars, batchVars, paused, connected, latestLeaseToken,
                 pendingSwapPoolPairs, watchSwapPools, lookups, lookedUp, awaited, stopped>>

\* updateLeaseToken as a listener: the token is stored, the waiters are
\* resolved, then a new resolvePendingPoolPairs starts
leaseTokenUpdated(token) ==
  /\ latestLeaseToken' = token
  /\ LET resumed == [i \in 1..leaseTokenWaiters |-> Task("afterWait", <<>>)]
         call == IF pendingSwapPoolPairs # <<>>
                 THEN pendingCall(token, 0, microtasks \o resumed)
                 ELSE [waiters |-> 0, tasks |-> microtasks \o resumed]
     IN /\ leaseTokenWaiters' = call.waiters
        /\ microtasks' = call.tasks

\* updateLeaseToken, the listener of every client's 'lease' event: the
\* waiters are resolved first, then a new resolvePendingPoolPairs starts
updateLeaseToken(token) ==
  /\ started # "new"
  /\ microtasks = <<>>
  /\ leaseTokenUpdated(token)
  /\ trace' = <<>>
  /\ last' = Last("updateLeaseToken", "none", NoFrame, <<>>, token, leaseTokenWaiters, "none")
  /\ UNCHANGED <<clientVars, chargeVars, ringVars, storeVars, startVars, listVars, eventVars, batchVars, paused, connected, pendingSwapPoolPairs,
                 watchSwapPools, lookups, lookedUp, awaited, started, stopped>>

\* a run that reads the pending pairs and leaves them in place
pendingLeft == pendingSwapPoolPairs

\* resolvePendingPoolPairs after its wait: this.pendingSwapPoolPairs = []
pendingTaken == <<>>

\* the oldest continuation runs.  afterWait is resolvePendingPoolPairs after
\* its wait: it takes the pending pairs and calls resolvePoolsFromInput;
\* afterResolve is the same function after that call returned without a
\* lookup; afterPrompt is the prompt's callback after resolvePoolsFromInput
\* returned without a lookup
resume ==
  /\ microtasks # <<>>
  /\ LET task == Head(microtasks)
         input == resolveInput(pendingSwapPoolPairs)
     IN CASE task.kind = "afterWait" /\ pendingSwapPoolPairs # <<>> /\ input.lookup ->
               /\ pendingSwapPoolPairs' = pendingTaken
               /\ lookups' = Append(lookups, Lookup("config", input.poolIds, input.pairs))
               /\ lookedUp' = lookedUp \o Asked("config", input.pairs)
               /\ microtasks' = Tail(microtasks)
               /\ trace' = <<Http("pool-lookup", Len(input.pairs))>>
               /\ UNCHANGED <<watchSwapPools, watchAccounts>>
          [] task.kind = "afterWait" /\ pendingSwapPoolPairs # <<>> /\ ~input.lookup ->
               /\ pendingSwapPoolPairs' = pendingTaken
               /\ microtasks' = Append(Tail(microtasks), Task("afterResolve", input.poolIds))
               /\ trace' = <<>>
               /\ UNCHANGED <<lookups, lookedUp, watchSwapPools, watchAccounts>>
          [] task.kind = "afterWait" /\ pendingSwapPoolPairs = <<>> ->
               /\ microtasks' = Tail(microtasks)
               /\ trace' = <<>>
               /\ UNCHANGED <<pendingSwapPoolPairs, lookups, lookedUp, watchSwapPools,
                              watchAccounts>>
          [] task.kind \in {"afterResolve", "afterPrompt"} ->
               /\ microtasks' = Tail(microtasks)
               /\ addWatchSwapPools(task.pools, <<>>)
               /\ UNCHANGED <<pendingSwapPoolPairs, lookups, lookedUp>>
  /\ last' = Last("resume", "none", NoFrame, Head(microtasks).pools, 0, 0,
                  Head(microtasks).kind)
  /\ UNCHANGED <<configVars, watchMints, conn, ws, sock, currentToken, renewUrl, urlToken,
                 inflight, nextToken, replaced, opens, inbandSent, chargeVars, ringVars, storeVars, startVars, listVars, eventVars, batchVars,
                 paused, connected, latestLeaseToken, leaseTokenWaiters, awaited, started,
                 stopped>>

\* the callback of promptForSwapPools up to its await: without pairs, or
\* without a lease token, resolvePoolsFromInput returns the raw identifiers
promptForSwapPools(value) ==
  /\ started # "new"
  /\ microtasks = <<>>
  /\ LET input == resolveInput(parseList(value))
     IN /\ IF input.lookup
           THEN /\ Len(lookedUp) + Len(input.pairs) <= MaxLookups
                /\ lookups' = Append(lookups, Lookup("prompt", input.poolIds, input.pairs))
                /\ lookedUp' = lookedUp \o Asked("prompt", input.pairs)
                /\ trace' = <<Http("pool-lookup", Len(input.pairs))>>
                /\ UNCHANGED microtasks
           ELSE /\ microtasks' = Append(microtasks, Task("afterPrompt", input.poolIds))
                /\ trace' = <<>>
                /\ UNCHANGED <<lookups, lookedUp>>
        /\ awaited' = IF latestLeaseToken = 0
                      THEN awaited \cup Range(Asked("prompt", input.pairs))
                      ELSE awaited
  /\ last' = Last("promptForSwapPools", "none", NoFrame, value, latestLeaseToken, 0, "none")
  /\ UNCHANGED <<clientVars, chargeVars, ringVars, storeVars, startVars, listVars, eventVars, batchVars, paused, connected, latestLeaseToken,
                 leaseTokenWaiters, pendingSwapPoolPairs, watchSwapPools, started, stopped>>

\* the answers of one lookup have all arrived: lookupPoolsForPairs returns,
\* resolvePoolsFromInput returns the raw identifiers and the pools found,
\* and its caller merges them.  The queue is empty when the answers arrive,
\* so these continuations run one after the other
lookupDone(i, outcomes) ==
  /\ microtasks = <<>>
  /\ i \in 1..Len(lookups)
  /\ LET lookup == lookups[i]
         found == lookupPoolsForPairs(lookup.pairs, outcomes)
         resolved == uniqueList(lookup.poolIds \o found.pools)
         logged == [n \in 1..found.errors |-> Eff("log", "pool-lookup", 0, <<>>)]
     IN /\ lookups' = SubSeq(lookups, 1, i - 1) \o SubSeq(lookups, i + 1, Len(lookups))
        /\ IF lookup.origin = "config" /\ resolved = <<>>
           THEN /\ trace' = logged
                /\ UNCHANGED <<watchSwapPools, watchAccounts>>
           ELSE addWatchSwapPools(resolved, logged)
        /\ last' = Last("lookupDone", "none", NoFrame,
                        [lookup |-> lookup, outcomes |-> outcomes], 0, 0, "none")
  /\ UNCHANGED <<configVars, watchMints, conn, ws, sock, currentToken, renewUrl, urlToken,
                 inflight, nextToken, replaced, opens, inbandSent, chargeVars, ringVars, storeVars, startVars, listVars, eventVars, batchVars,
                 paused, connected, latestLeaseToken, leaseTokenWaiters,
                 pendingSwapPoolPairs, microtasks, lookedUp, awaited, started, stopped>>

\* disconnect() as stop() calls it on every client
stoppedSocket(s) ==
  IF ws[s] = "null" THEN sock[s]
  ELSE IF sock[s] = "connecting" THEN "aborted"
       ELSE IF sock[s] = "open" THEN "closing" ELSE sock[s]

\* stop(): every client is disconnected, the batcher, the scheduler and the
\* screen are destroyed; the lease-token waiters are not touched
stop ==
  /\ microtasks = <<>>
  /\ ~stopped
  /\ stopped' = TRUE
  /\ sock' = [s \in Sessions |-> stoppedSocket(s)]
  /\ ws' = [s \in Sessions |-> "null"]
  /\ trace' = <<>>
  /\ last' = Last("stop", "none", NoFrame, <<>>, 0, leaseTokenWaiters, "none")
  /\ UNCHANGED <<configVars, watchVars, conn, currentToken, renewUrl, urlToken, inflight,
                 nextToken, replaced, opens, inbandSent, chargeVars, ringVars, storeVars, startVars, listVars, eventVars, batchVars, paused,
                 connected, latestLeaseToken, leaseTokenWaiters, pendingSwapPoolPairs,
                 watchSwapPools, microtasks, lookups, lookedUp, awaited, started>>

\* ------------------------------------------------------------- ring buffer
\* what is pushed: values other than undefined
Items == {"x", "y", "z"}

\* the index after i, around the end of the array, without moving
stay(i) == i

\* the index after i, around the end of the array
advance(i) == (i + 1) % capacity

\* push: the item is written at tail; a full buffer gives up its oldest item
push(item) ==
  /\ Len(pushed) < MaxPush
  /\ buffer' = [buffer EXCEPT ![tail] = item]
  /\ IF count = capacity
     THEN /\ head' = advance(head)
          /\ UNCHANGED count
     ELSE /\ count' = count + 1
          /\ UNCHANGED head
  /\ tail' = advance(tail)
  /\ pushed' = Append(pushed, item)
  /\ trace' = <<>>
  /\ last' = Last("push", "none", NoFrame, <<item>>, 0, count, "none")
  /\ UNCHANGED <<clientVars, chargeVars, poolVars, storeVars, startVars, listVars, eventVars, batchVars, paused, connected, capacity>>

\* toArray: count items from head on, holes skipped
toArray ==
  LET items == [i \in 1..count |-> buffer[(head + i - 1) % capacity]]
  IN SelectSeq(items, LAMBDA item : item # "undefined")

\* the getter length
length == count

\* clear: a new array of holes
clear ==
  /\ buffer' = [i \in 0..(capacity - 1) |-> "undefined"]
  /\ head' = 0
  /\ tail' = 0
  /\ count' = 0
  /\ pushed' = <<>>
  /\ trace' = <<>>
  /\ last' = Last("clear", "none", NoFrame, <<>>, 0, count, "none")
  /\ UNCHANGED <<clientVars, chargeVars, poolVars, storeVars, startVars, listVars, eventVars, batchVars, paused, connected, capacity>>

\* ------------------------------------------------------------------ store
\* the rolling window of the per-minute rates, in seconds
Window == 60

\* a ring whose toArray() returns the newest item first
ringPushNewestFirst(items, item, size) ==
  IF Len(items) = size THEN <<item>> \o SubSeq(items, 1, size - 1) ELSE <<item>> \o items

\* RingBuffer.push on the list toArray() returns
ringPush(items, item, size) ==
  IF Len(items) = size THEN Append(Tail(items), item) ELSE Append(items, item)

\* the filter of updateSwapsPerMinute and updateAlertsPerMinute: the
\* timestamps later than one minute before `at`
countRecent(timestamps, at) == Len(SelectSeq(timestamps, LAMBDA t : t > at - Window))

\* one entry of calls
Call(method, data) == [method |-> method, data |-> data, at |-> now]

\* a change in percent that is never computed
noChange(previous, price) == NoQuotient

\* the changePct of updatePrice
changeOf(previous, price) ==
  IF previous.has /\ previous.price > 0
  THEN Quotient((price - previous.price) * 100, previous.price)
  ELSE NoQuotient

\* updatePrice: the store afterwards
priceUpdated(data) ==
  LET previous == store.prices[data.pairKey]
      next == [has |-> TRUE, price |-> data.price,
               changePct |-> changeOf(previous, data.price)]
  IN [store EXCEPT
        !.prices[data.pairKey] = next,
        !.priceHistory[data.pairKey] =
           ringPush(@, [price |-> data.price, timestamp |-> now], PriceHistoryLength)]

\* updatePrice: changePct against the stored price, then the price is stored
updatePrice(data) ==
  /\ Len(calls) < MaxCalls
  /\ store' = priceUpdated(data)
  /\ trace' = <<Eff("store", "price:update", 0, <<>>)>>
  /\ calls' = Append(calls, Call("updatePrice", data))
  /\ last' = Last("updatePrice", "none", NoFrame, data, 0, 0, "none")
  /\ UNCHANGED <<clientVars, chargeVars, poolVars, ringVars, startVars, listVars, eventVars, batchVars, paused, connected, now>>

\* the notional total of addSwapQuote
addFinite(total, notionalUsd) ==
  IF notionalUsd.kind # "undefined" /\ isFinite(notionalUsd)
  THEN total + notionalUsd.value
  ELSE total

\* the notional of the latest swap quote that has a finite one
latestOf(largest, notionalUsd) ==
  IF notionalUsd.kind # "undefined" /\ isFinite(notionalUsd) THEN notionalUsd ELSE largest

\* the largest notional of addSwapQuote
largestOf(largest, notionalUsd) ==
  IF notionalUsd.kind # "undefined" /\ isFinite(notionalUsd)
     /\ (largest.kind = "undefined" \/ notionalUsd.value > largest.value)
  THEN notionalUsd
  ELSE largest

\* addSwapQuote: the store afterwards
swapQuoteAdded(swap) ==
  LET timestamps == ringPush(store.swapTimestamps, now, TimestampCapacity)
  IN [store EXCEPT
        !.swaps = ringPush(@, swap, SwapHistoryLength),
        !.swapTimestamps = timestamps,
        !.stats = [@ EXCEPT
           !.totalSwaps = @ + 1,
           !.totalNotionalUsd = addFinite(@, swap.notionalUsd),
           !.largestSwapUsd = largestOf(@, swap.notionalUsd),
           !.swapsPerMinute = countRecent(timestamps, now)]]

\* addSwapQuote: the swap and its time are pushed, the totals and the rate
\* are updated
addSwapQuote(swap) ==
  /\ Len(calls) < MaxCalls
  /\ store' = swapQuoteAdded(swap)
  /\ trace' = <<Eff("store", "swap:quote", 0, <<>>), Eff("store", "stats:update", 0, <<>>)>>
  /\ calls' = Append(calls, Call("addSwapQuote", swap))
  /\ last' = Last("addSwapQuote", "none", NoFrame, swap, 0, 0, "none")
  /\ UNCHANGED <<clientVars, chargeVars, poolVars, ringVars, startVars, listVars, eventVars, batchVars, paused, connected, now>>

\* addSwapAlert: the alert and its time are pushed, its count and rate updated
addSwapAlert(swap) ==
  /\ Len(calls) < MaxCalls
  /\ LET timestamps == ringPush(store.alertTimestamps, now, TimestampCapacity)
     IN store' = [store EXCEPT
                    !.swapAlerts = ringPush(@, swap, SwapHistoryLength),
                    !.alertTimestamps = timestamps,
                    !.stats = [@ EXCEPT
                       !.totalSwapAlerts = @ + 1,
                       !.alertsPerMinute = countRecent(timestamps, now)]]
  /\ trace' = <<Eff("store", "swap:alert", 0, <<>>), Eff("store", "stats:update", 0, <<>>)>>
  /\ calls' = Append(calls, Call("addSwapAlert", swap))
  /\ last' = Last("addSwapAlert", "none", NoFrame, swap, 0, 0, "none")
  /\ UNCHANGED <<clientVars, chargeVars, poolVars, ringVars, startVars, listVars, eventVars, batchVars, paused, connected, now>>

\* getStats: a copy of the stats as the last insertion left them
getStats == store.stats

\* time passes
tick(seconds) ==
  /\ now + seconds <= MaxTime
  /\ now' = now + seconds
  /\ trace' = <<>>
  /\ last' = Last("tick", "none", NoFrame, <<>>, seconds, now, "none")
  /\ UNCHANGED <<clientVars, chargeVars, poolVars, ringVars, startVars, listVars, eventVars, batchVars, paused, connected, store, calls>>

\* ---------------------------------------------------------------- startup
\* what the unpaid probe of a schema path gets back: the status, the
\* requirement a PAYMENT-REQUIRED header decodes to (if any), and the body
Probe(status, header, body) == [status |-> status, header |-> header, body |-> body]

\* a decoded requirement or a body: its kind, its amount and its asset ("" is
\* a field that is missing or not a string)
Part(kind, amount, asset) == [kind |-> kind, amount |-> amount, asset |-> asset]
NoPart == Part("none", "", "")

\* what fetchStreamChargePreview returns or that it threw
Previewed(amountRaw, asset) == [threw |-> FALSE, amountRaw |-> amountRaw, asset |-> asset]
PreviewThrew == [threw |-> TRUE, amountRaw |-> "", asset |-> ""]

\* the part of fetchStreamChargePreview that handles a 402: the requirement
\* the x402 client decodes (from the header, or from a version 1 body), then
\* the compat parsing of the body, then null
previewOfChallenge(resp) ==
  LET decoded == IF resp.header.kind = "v2" THEN resp.header
                 ELSE IF resp.body.kind = "v1" THEN Part("v1", "", resp.body.asset)
                 ELSE NoPart
  IN IF resp.body.kind = "aborted" THEN PreviewThrew
     ELSE IF decoded.kind # "none" /\ decoded.amount # "" /\ decoded.asset # ""
     THEN Previewed(decoded.amount, decoded.asset)
     ELSE IF resp.body.kind \in {"v1", "v2"} /\ resp.body.amount # ""
     THEN Previewed(resp.body.amount, resp.body.asset)
     ELSE Previewed("", "")

\* fetchStreamChargePreview
fetchStreamChargePreview(resp) ==
  CASE resp.status = "network" -> PreviewThrew
    [] resp.status = "ok" ->
         IF resp.body.kind = "schema"
         THEN Previewed(resp.body.amount, resp.body.asset)
         ELSE PreviewThrew
    [] resp.status = "402" -> previewOfChallenge(resp)
    [] OTHER -> PreviewThrew

\* parseBigInt: null when BigInt throws
parseBigInt(value) == IF BigInt(value).ok THEN Num(BigInt(value).value) ELSE Null

\* the preview that is shown when nothing is known
UnknownPreview == [state |-> "loaded", amountRaw |-> Null, asset |-> "", display |-> "unknown"]

\* the body of the try of loadStreamChargePreviews: the amount is parsed
\* and the text to display chosen
loadedPreview(preview) ==
  LET amountRawValue == IF preview.amountRaw # "" THEN parseBigInt(preview.amountRaw) ELSE Null
      truthy == amountRawValue.kind = "number" /\ amountRawValue.value # 0
  IN [state |-> "loaded", amountRaw |-> amountRawValue, asset |-> preview.asset,
      display |-> IF truthy /\ preview.asset # "" THEN "formatted"
                  ELSE IF preview.amountRaw # "" /\ preview.asset # "" THEN "raw"
                  ELSE "unknown"]

\* a preview loader without its catch: a failure of the probe rejects the
\* promise of the stream
previewUncaught(resp) ==
  IF fetchStreamChargePreview(resp).threw
  THEN [state |-> "rejected", amountRaw |-> Null, asset |-> "", display |-> "none"]
  ELSE loadedPreview(fetchStreamChargePreview(resp))

\* one stream's part of loadStreamChargePreviews
previewOf(resp) ==
  IF fetchStreamChargePreview(resp).threw
  THEN UnknownPreview
  ELSE loadedPreview(fetchStreamChargePreview(resp))

\* the streams the configuration enables
Enabled == Sessions

\* start() up to its first await: the previews of the enabled streams are
\* requested, without payment
start ==
  /\ phase = "new"
  /\ phase' = "loading"
  /\ trace' = <<Http("preview", 0), Http("preview", 0)>>
  /\ last' = Last("start", "none", NoFrame, <<>>, 0, 0, "none")
  /\ UNCHANGED <<clientVars, chargeVars, poolVars, ringVars, storeVars, listVars, eventVars, batchVars, paused, connected,
                 previews, x402Context, enabled, clients, shortcuts>>

\* the probe of one stream has ended; when it is the last one the previews
\* are complete and confirmStreamCharges shows its dialog
previewLoaded(s, resp) ==
  /\ phase = "loading"
  /\ previews[s].state = "pending"
  /\ previews' = [previews EXCEPT ![s] = previewOf(resp)]
  /\ phase' = IF \A other \in Enabled \ {s} : previews[other].state # "pending"
              THEN "asking" ELSE "loading"
  /\ trace' = <<>>
  /\ last' = Last("previewLoaded", s, NoFrame, resp, 0, 0, "none")
  /\ UNCHANGED <<clientVars, chargeVars, poolVars, ringVars, storeVars, listVars, eventVars, batchVars, paused, connected,
                 x402Context, enabled, clients, shortcuts>>

\* every stream recorded the way the configuration has it
setAllStreamsConfigured == [s \in Sessions |-> s \in Enabled]

\* setAllStreamsDisabled
setAllStreamsDisabled == [s \in Sessions |-> FALSE]

\* a button of the dialog is pressed and start() goes on: on No every
\* stream is set disabled and start() returns; on Yes the keys are bound
\* and initializeDataSources awaits the payment context.  The previews are
\* locals of confirmStreamCharges and are gone when it returns
answer(yes) ==
  /\ phase = "asking"
  /\ IF yes
     THEN /\ phase' = "context"
          /\ shortcuts' = TRUE
          /\ UNCHANGED <<enabled, connected>>
     ELSE /\ phase' = "declined"
          /\ enabled' = setAllStreamsDisabled
          /\ connected' = [s \in Sessions |-> FALSE]
          /\ UNCHANGED shortcuts
  /\ previews' = [s \in Sessions |-> NoPreview]
  /\ trace' = <<>>
  /\ last' = Last("answer", "none", NoFrame, <<>>, 0, 0, IF yes THEN "yes" ELSE "no")
  /\ UNCHANGED <<clientVars, chargeVars, poolVars, ringVars, storeVars, listVars, eventVars, batchVars, paused, x402Context,
                 clients>>

\* getWatchAccountsForStream and getWatchMintsForStream: the lists a new
\* client is constructed with.  The swap-quotes stream gets the
\* application's swap pools and mints, in the order of insertion of the
\* Sets; any other stream of the model gets the lists of its configuration
getWatchAccountsForStream(s) ==
  IF s = "swap-quotes" THEN watchSwapPools ELSE watchAccounts[s]

getWatchMintsForStream(s) ==
  IF s = "swap-quotes" THEN appWatchMints ELSE watchMints[s]

\* enableStream for a stream that has no client: the client is constructed
\* with the application's lists and registered, the stream is recorded as
\* enabled and not connected, and connect() is called on the client (up to
\* its await: the paid schema fetch is issued)
enableStreamCall(s, flags) ==
  /\ clients' = [clients EXCEPT ![s] = "set"]
  /\ enabled' = [flags EXCEPT ![s] = TRUE]
  /\ connected' = [connected EXCEPT ![s] = FALSE]
  /\ watchAccounts' = [watchAccounts EXCEPT ![s] = getWatchAccountsForStream(s)]
  /\ watchMints' = [watchMints EXCEPT ![s] = getWatchMintsForStream(s)]
  /\ conn[s] = "idle"
  /\ conn' = [conn EXCEPT ![s] = "fetching"]
  /\ UNCHANGED <<configVars, ws, sock, currentToken, renewUrl, urlToken,
                 inflight, nextToken, replaced, opens, inbandSent>>

\* the streams in the order of the configuration
StreamOrder == <<"token-ticker", "swap-quotes">>

\* the streams that follow s in a list
RECURSIVE streamsAfter(_, _)
streamsAfter(order, s) ==
  IF order = <<>> THEN <<>>
  ELSE IF Head(order) = s THEN Tail(order) ELSE streamsAfter(Tail(order), s)

\* the streams of a list that the loop of initializeDataSources has to wait
\* for: enabled, and without a client
toEnable(order, flags) == SelectSeq(order, LAMBDA s : flags[s] /\ clients[s] = "none")

\* the loop of initializeDataSources over the streams it has not looked at:
\* it enables the first one that needs it and awaits its connect(); with
\* none left it calls resolvePendingPoolPairs (no pair is pending here)
enableFrom(order, flags) ==
  LET waiting == toEnable(order, flags)
  IN IF waiting = <<>>
     THEN /\ phase' = "done"
          /\ enabled' = flags
          /\ trace' = <<>>
          /\ UNCHANGED <<clientVars, clients, connected>>
     ELSE /\ phase' = Head(waiting)
          /\ enableStreamCall(Head(waiting), flags)
          /\ trace' = <<Http("schema", 0)>>

\* createX402Context has resolved: initializeDataSources records every
\* stream of the configuration as enabled and starts its loop
contextCreated ==
  /\ phase = "context"
  /\ x402Context' = TRUE
  /\ enableFrom(StreamOrder, [s \in Sessions |-> s \in Enabled])
  /\ last' = Last("contextCreated", "none", NoFrame, <<>>, 0, 0, "none")
  /\ UNCHANGED <<chargeVars, poolVars, ringVars, storeVars, listVars, eventVars, batchVars, paused, previews, shortcuts>>

\* the connect() that enableStream awaits has settled (a failure is caught
\* and recorded): the loop goes on
enableNext ==
  /\ phase \in Sessions
  /\ conn[phase] \in {"done", "failed"}
  /\ enableFrom(streamsAfter(StreamOrder, phase), enabled)
  /\ last' = Last("enableNext", phase, NoFrame, <<>>, 0, 0, "none")
  /\ UNCHANGED <<chargeVars, poolVars, ringVars, storeVars, listVars, eventVars, batchVars, paused, previews, x402Context,
                 shortcuts>>

\* the key that toggles a stream.  An enabled stream is disabled
\* (disableStream: its client is disconnected and forgotten, its pending
\* charge deleted); a disabled one is enabled, which only logs an error
\* while there is no payment context.  Enabling a stream again after its
\* client was forgotten makes a second client and is not part of the model
toggleStream(s) ==
  /\ shortcuts
  /\ IF enabled[s]
     THEN /\ sock' = [sock EXCEPT ![s] = IF clients[s] = "set" THEN stoppedSocket(s) ELSE @]
          /\ ws' = [ws EXCEPT ![s] = IF clients[s] = "set" THEN "null" ELSE @]
          /\ clients' = [clients EXCEPT ![s] = IF @ = "set" THEN "deleted" ELSE @]
          /\ pendingCharges' = pendingCleared(s)
          /\ enabled' = [enabled EXCEPT ![s] = FALSE]
          /\ connected' = [connected EXCEPT ![s] = FALSE]
          /\ trace' = <<>>
          /\ UNCHANGED <<configVars, watchVars, conn, currentToken, renewUrl, urlToken,
                         inflight, nextToken, replaced, opens, inbandSent>>
     ELSE /\ clients[s] = "none"
          /\ IF x402Context
             THEN /\ enableStreamCall(s, enabled)
                  /\ trace' = <<Http("schema", 0)>>
             ELSE /\ trace' = <<Eff("log", "streams", 0, <<>>)>>
                  /\ UNCHANGED <<clientVars, clients, enabled, connected>>
          /\ UNCHANGED pendingCharges
  /\ last' = Last("toggleStream", s, NoFrame, <<>>, 0, 0, "none")
  /\ UNCHANGED <<spendTotals, consumed, charged, poolVars, ringVars, storeVars, listVars, eventVars, batchVars, paused,
                 phase, previews, x402Context, shortcuts>>

\* -------------------------------------------------------------- watchlists
\* removeItems on a Set: the set afterwards and the items that were in it
removeItems(target, incoming) == subtractLoop(target, <<>>, incoming)

\* StreamClient.removeAccounts, addMints and removeMints as the application
\* calls them: the session's list afterwards and what is written to the
\* socket
clientRemoveAccounts(s, accounts) ==
  LET normalized == normalizeList(accounts)
      rest == subtractList(watchAccounts[s], normalized)
  IN IF Len(normalized) = 0 \/ Len(rest.removed) = 0
     THEN [accounts |-> watchAccounts[s], sent |-> <<>>]
     ELSE [accounts |-> rest.next,
           sent |-> send(ws[s], sock[s], Msg("removeAccounts", 0, rest.removed))]

clientAddMints(s, mints) ==
  LET normalized == normalizeList(mints)
      merged == mergeList(watchMints[s], normalized)
  IN IF Len(normalized) = 0 \/ Len(merged.added) = 0
     THEN [mints |-> watchMints[s], sent |-> <<>>]
     ELSE [mints |-> merged.next,
           sent |-> send(ws[s], sock[s], Msg("addMints", 0, merged.added))]

clientRemoveMints(s, mints) ==
  LET normalized == normalizeList(mints)
      rest == subtractList(watchMints[s], normalized)
  IN IF Len(normalized) = 0 \/ Len(rest.removed) = 0
     THEN [mints |-> watchMints[s], sent |-> <<>>]
     ELSE [mints |-> rest.next,
           sent |-> send(ws[s], sock[s], Msg("removeMints", 0, rest.removed))]

\* what a change of the application's set does to the swap-quotes client,
\* the only target among the streams of the model: nothing when no item
\* changed the set or when the stream has no client
toClient(changed, call) ==
  IF changed # <<>> /\ clients["swap-quotes"] = "set"
  THEN call
  ELSE [accounts |-> watchAccounts["swap-quotes"], mints |-> watchMints["swap-quotes"],
        sent |-> <<>>]

\* the fields of the program a watchlist method does not touch
listFrame ==
  UNCHANGED <<configVars, conn, ws, sock, currentToken, renewUrl, urlToken, inflight,
              nextToken, replaced, opens, inbandSent, chargeVars, ringVars, storeVars,
              startVars, eventVars, batchVars, paused, connected, latestLeaseToken, leaseTokenWaiters,
              pendingSwapPoolPairs, microtasks, lookups, lookedUp, awaited, started, stopped>>

\* addWatchMints and addMintsToStreams, as the prompt's callback calls them
addWatchMints(mints) ==
  /\ shortcuts
  /\ LET merged == mergeNewItems(appWatchMints, mints)
         client == toClient(merged.added, clientAddMints("swap-quotes", merged.added))
     IN /\ appWatchMints' = merged.next
        /\ watchMints' = [watchMints EXCEPT !["swap-quotes"] = client.mints]
        /\ trace' = client.sent
  /\ last' = Last("addWatchMints", "swap-quotes", NoFrame, mints, 0, 0, "none")
  /\ listFrame
  /\ UNCHANGED <<watchAccounts, watchSwapPools, watchReservePools>>

\* removeWatchMints and removeMintsFromStreams
removeWatchMints(mints) ==
  /\ shortcuts
  /\ LET rest == removeItems(appWatchMints, mints)
         client == toClient(rest.removed, clientRemoveMints("swap-quotes", rest.removed))
     IN /\ appWatchMints' = rest.next
        /\ watchMints' = [watchMints EXCEPT !["swap-quotes"] = client.mints]
        /\ trace' = client.sent
  /\ last' = Last("removeWatchMints", "swap-quotes", NoFrame, mints, 0, 0, "none")
  /\ listFrame
  /\ UNCHANGED <<watchAccounts, watchSwapPools, watchReservePools>>

\* the callback of promptForSwapPools once resolvePoolsFromInput has
\* returned the pools: addWatchSwapPools
swapPoolsResolved(pools) ==
  /\ shortcuts
  /\ addWatchSwapPools(pools, <<>>)
  /\ last' = Last("addWatchSwapPools", "swap-quotes", NoFrame, pools, 0, 0, "none")
  /\ listFrame
  /\ UNCHANGED <<watchMints, appWatchMints, watchReservePools>>

\* removeWatchSwapPools and removeSwapPoolsFromStreams
removeWatchSwapPools(pools) ==
  /\ shortcuts
  /\ LET rest == removeItems(watchSwapPools, pools)
         client == toClient(rest.removed, clientRemoveAccounts("swap-quotes", rest.removed))
     IN /\ watchSwapPools' = rest.next
        /\ watchAccounts' = [watchAccounts EXCEPT !["swap-quotes"] = client.accounts]
        /\ trace' = client.sent
  /\ last' = Last("removeWatchSwapPools", "swap-quotes", NoFrame, pools, 0, 0, "none")
  /\ listFrame
  /\ UNCHANGED <<watchMints, appWatchMints, watchReservePools>>

\* addWatchReservePools and addReservePoolsToStreams: the target is the
\* pool-reserves stream, which the configuration disables and which has no
\* client
addWatchReservePools(pools) ==
  /\ shortcuts
  /\ watchReservePools' = mergeNewItems(watchReservePools, pools).next
  /\ trace' = <<>>
  /\ last' = Last("addWatchReservePools", "pool-reserves", NoFrame, pools, 0, 0, "none")
  /\ listFrame
  /\ UNCHANGED <<watchVars, watchSwapPools, appWatchMints>>

\* removeWatchReservePools and removeReservePoolsFromStreams
removeWatchReservePools(pools) ==
  /\ shortcuts
  /\ watchReservePools' = removeItems(watchReservePools, pools).next
  /\ trace' = <<>>
  /\ last' = Last("removeWatchReservePools", "pool-reserves", NoFrame, pools, 0, 0, "none")
  /\ listFrame
  /\ UNCHANGED <<watchVars, watchSwapPools, appWatchMints>>

\* ------------------------------------------------------------- event path
\* a domain event as the 'event' listener receives it; slot is the number of
\* the frame on its socket
Event(type, stream, pairKey, price, notionalUsd, slot) ==
  [type |-> type, stream |-> stream, pairKey |-> pairKey, price |-> price,
   notionalUsd |-> notionalUsd, slot |-> slot]

\* a call of a method of the store, and none
StoreCall(method, data, after) == [method |-> method, data |-> data, store |-> after]
NoStoreCall(event) == StoreCall("none", event, store)

\* handleStreamEvent: the call of the store an event leads to.  A ticker
\* of a tracked pair quoted in USDC is one updatePrice (the prices derived
\* from the SOL price are not part of the model); a swap-quote goes to
\* addSwapQuote when it comes from the swap-quotes stream
handleStreamEvent(event) ==
  CASE event.type = "ticker" -> StoreCall("updatePrice", event, priceUpdated(event))
    [] event.type = "swap-quote" /\ event.stream = "swap-quotes" ->
         StoreCall("addSwapQuote", event, swapQuoteAdded(event))
    [] OTHER -> NoStoreCall(event)

\* an 'event' listener that does not look at the pause flag
eventListenerAlways(event) == handleStreamEvent(event)

\* the application's 'event' listener: nothing while paused
eventListener(event) == IF paused THEN NoStoreCall(event) ELSE handleStreamEvent(event)

\* one entry of arrived and one of handled
Arrival(frame, event) == [frame |-> frame, event |-> event, paused |-> paused]
Handling(s, slot, to) == [s |-> s, slot |-> slot, to |-> to]

\* how many frames have arrived on all sockets
RECURSIVE Arrivals(_)
Arrivals(sessions) ==
  IF sessions = {} THEN 0
  ELSE LET s == CHOOSE t \in sessions : TRUE
       IN Len(arrived[s]) + Arrivals(sessions \ {s})

\* the "message" handler of a client together with the listeners of the
\* application that its emissions call before it returns: 'x402' goes to
\* handleX402Event, 'event' to handleStreamEvent unless the application is
\* paused ('status' only changes what the screen shows)
message(s, frame, event) ==
  /\ Arrivals(Sessions) < MaxFrames
  /\ onMessageCall(s, frame)
  /\ arrived' = [arrived EXCEPT ![s] = Append(@, Arrival(frame, event))]
  /\ IF isWsX402Event(frame)
     THEN /\ handleX402EventCall(s, event)
          /\ handled' = Append(handled, Handling(s, Len(arrived[s]) + 1, "ledger"))
          /\ UNCHANGED <<store, calls>>
     ELSE IF isWsEvent(frame) /\ eventListener(event).method # "none"
     THEN /\ Len(calls) < MaxCalls
          /\ store' = eventListener(event).store
          /\ calls' = Append(calls, Call(eventListener(event).method, event))
          /\ handled' = Append(handled, Handling(s, Len(arrived[s]) + 1, "store"))
          /\ UNCHANGED <<pendingCharges, spendTotals, consumed>>
     ELSE UNCHANGED <<store, calls, handled, pendingCharges, spendTotals, consumed>>
  /\ last' = Last("message", s, frame, event, Len(arrived[s]) + 1, currentToken[s],
                  IF paused THEN "paused" ELSE "running")
  /\ UNCHANGED <<connected, paused, charged, poolVars, ringVars, now, startVars, listVars, batchVars>>

\* handleX402 after the await of renewHttp, with the listeners of the
\* application: 'lease' goes to updateLeaseToken, 'error' to the log
leaseRenewed(s, r, outcome) ==
  /\ renewHttpDoneCall(s, r, outcome)
  /\ IF outcome = "ok"
     THEN leaseTokenUpdated(nextToken[s])
     ELSE UNCHANGED <<latestLeaseToken, leaseTokenWaiters, microtasks>>
  /\ last' = Last("leaseRenewed", s, NoFrame, <<>>, r.tok, currentToken[s], outcome)
  /\ UNCHANGED <<connected, paused, chargeVars, ringVars, storeVars, startVars, listVars,
                 eventVars, batchVars, pendingSwapPoolPairs, watchSwapPools, lookups, lookedUp,
                 awaited, started, stopped>>

\* the key p
togglePause ==
  /\ shortcuts
  /\ paused' = ~paused
  /\ trace' = <<Eff("stat", "Paused", 0, <<>>)>>
  /\ last' = Last("togglePause", "none", NoFrame, <<>>, 0, 0, IF paused THEN "paused" ELSE "running")
  /\ UNCHANGED <<clientVars, appVars, connected>>

\* ---------------------------------------------------------- update batcher
\* a flush that leaves this.updates as it is
updatesKept == updates

\* flush: this.updates = {}
updatesReset == NoUpdates

\* flush(): nothing when there is no key, else the callback gets the batch
\* and the batcher starts an empty one
flushCall ==
  IF updates = NoUpdates
  THEN UNCHANGED <<updates, flushed>>
  ELSE /\ updates' = updatesReset
       /\ flushed' = Append(flushed, updates)

\* add(type, data): pushed to the list of the type, or a new list (data is
\* the number of the call)
add(type, data) ==
  /\ Len(adds) < MaxAdds
  /\ updates' = [updates EXCEPT ![type] = Append(@, data)]
  /\ adds' = Append(adds, [type |-> type, data |-> data, destroyed |-> flushInterval = "null"])
  /\ trace' = <<>>
  /\ last' = Last("add", "none", NoFrame, type, data, 0, "none")
  /\ UNCHANGED <<clientVars, chargeVars, poolVars, ringVars, storeVars, startVars, listVars,
                 eventVars, paused, connected, flushInterval, flushed>>

\* the interval of the constructor fires: flush()
flush ==
  /\ flushInterval = "set"
  /\ flushCall
  /\ trace' = <<>>
  /\ last' = Last("flush", "none", NoFrame, <<>>, 0, 0, IF updates = NoUpdates THEN "empty" ELSE "batch")
  /\ UNCHANGED <<clientVars, chargeVars, poolVars, ringVars, storeVars, startVars, listVars,
                 eventVars, paused, connected, flushInterval, adds>>

\* destroy(): the interval is cleared, then flush()
destroy ==
  /\ flushInterval' = "null"
  /\ flushCall
  /\ trace' = <<>>
  /\ last' = Last("destroy", "none", NoFrame, <<>>, 0, 0, IF updates = NoUpdates THEN "empty" ELSE "batch")
  /\ UNCHANGED <<clientVars, chargeVars, poolVars, ringVars, storeVars, startVars, listVars,
                 eventVars, paused, connected, adds>>

\* ------------------------------------------------------- the specification
\* the challenges and payloads of Next: one that passes and one that fails
NextChallenges == {Challenge(402, FALSE, 0, 0), Challenge(402, TRUE, 2, 1)}
NextPayloads == {Payload(TRUE, FALSE, 0, 0), Payload(FALSE, TRUE, 2, 1)}

Next ==
  \/ \E s \in Sessions : connect(s)
  \/ \E s \in Sessions, outcome \in SchemaOutcomes : connectSchema(s, outcome)
  \/ \E s \in Sessions : onOpen(s)
  \/ \E s \in Sessions, frame \in CoreFrames : onMessage(s, frame)
  \/ \E s \in Sessions : \E r \in Awaiting(s), outcome \in RenewOutcomes : renewHttpDone(s, r, outcome)
  \/ \E s \in Sessions : \E r \in Awaiting(s), c \in NextChallenges : renewInbandDone(s, r, c)
  \/ \E s \in Sessions : \E r \in Awaiting(s), p \in NextPayloads : paymentPayloadDone(s, r, p)
  \/ \E s \in Sessions : disconnect(s)
  \/ \E s \in Sessions : onClose(s)
  \/ \E s \in Sessions : onError(s)

Spec == Init /\ [][Next]_vars

\* One session with every shape of frame the classification distinguishes.
FrameTargets == {"token-ticker"}

FrameNext ==
  \/ \E s \in FrameTargets : connect(s)
  \/ \E s \in FrameTargets, outcome \in SchemaOutcomes : connectSchema(s, outcome)
  \/ \E s \in FrameTargets : onOpen(s)
  \/ \E s \in FrameTargets, frame \in Frames : onMessage(s, frame)
  \/ \E s \in FrameTargets : \E r \in Awaiting(s), outcome \in RenewOutcomes : renewHttpDone(s, r, outcome)
  \/ \E s \in FrameTargets : \E r \in Awaiting(s), c \in Challenges : renewInbandDone(s, r, c)
  \/ \E s \in FrameTargets : \E r \in Awaiting(s), p \in Payloads(2) : paymentPayloadDone(s, r, p)
  \/ \E s \in FrameTargets : disconnect(s)
  \/ \E s \in FrameTargets : onClose(s)
  \/ \E s \in FrameTargets : onError(s)

FrameSpec == Init /\ [][FrameNext]_vars

\* In-band renewal by itself: one session on a v2 schema connects, opens,
\* is reminded and challenged, and closes
InbandInit ==
  /\ renewMethod = "inband"
  /\ schemaPath = [s \in Sessions |-> SchemaPaths[2]]
  /\ options = [s \in Sessions |-> FALSE]
  /\ watchPrograms = [s \in Sessions |-> <<>>]
  /\ watchAccounts = [s \in Sessions |-> <<>>]
  /\ watchMints = [s \in Sessions |-> <<>>]
  /\ InitDynamic

InbandNext ==
  \/ \E s \in FrameTargets : connect(s)
  \/ \E s \in FrameTargets : connectSchema(s, "ok")
  \/ \E s \in FrameTargets : onOpen(s)
  \/ \E s \in FrameTargets, frame \in CoreFrames : onMessage(s, frame)
  \/ \E s \in FrameTargets : \E r \in Awaiting(s), c \in Challenges : renewInbandDone(s, r, c)
  \/ \E s \in FrameTargets : \E r \in Awaiting(s), p \in Payloads(2) : paymentPayloadDone(s, r, p)
  \/ \E s \in FrameTargets : onClose(s)

InbandSpec == InbandInit /\ [][InbandNext]_vars

\* The watchlist of a session: the application adds and removes entries
\* while the session connects, is open and closes.  The add/remove methods
\* read and write nothing but the two lists and the socket, so the renewals
\* are left to Spec and the other fields of the configuration to OpenSpec.
WatchInit ==
  /\ renewMethod = "http"
  /\ schemaPath = [s \in Sessions |-> SchemaPaths[2]]
  /\ options = [s \in Sessions |-> s \in WatchTargets]
  /\ watchPrograms = [s \in Sessions |-> <<>>]
  /\ watchAccounts \in [Sessions -> IdLists]
  /\ watchMints \in [Sessions -> IdLists]
  /\ \A s \in Sessions \ WatchTargets : watchAccounts[s] = <<>> /\ watchMints[s] = <<>>
  /\ InitDynamic

WatchNext ==
  \/ \E s \in WatchTargets : connect(s)
  \/ \E s \in WatchTargets, outcome \in SchemaOutcomes : connectSchema(s, outcome)
  \/ \E s \in WatchTargets : onOpen(s)
  \/ \E s \in WatchTargets, mints \in InputLists : addMints(s, mints)
  \/ \E s \in WatchTargets, mints \in InputLists : removeMints(s, mints)
  \/ \E s \in WatchTargets, accounts \in InputLists : addAccounts(s, accounts)
  \/ \E s \in WatchTargets, accounts \in InputLists : removeAccounts(s, accounts)
  \/ \E s \in WatchTargets : disconnect(s)
  \/ \E s \in WatchTargets : onClose(s)
  \/ \E s \in WatchTargets : onError(s)

WatchSpec == WatchInit /\ [][WatchNext]_vars

\* The opening of a socket: the configuration of the session varies, and
\* the application changes the watchlists, one entry at a time, before and
\* after the socket opens.
OpenInit ==
  /\ renewMethod = "http"
  /\ schemaPath = [s \in Sessions |-> SchemaPaths[2]]
  /\ options \in [Sessions -> BOOLEAN]
  /\ watchPrograms \in [Sessions -> {<<>>, <<<<"p">>>>}]
  /\ watchAccounts \in [Sessions -> IdLists]
  /\ watchMints \in [Sessions -> IdLists]
  /\ \A s \in Sessions \ WatchTargets :
       ~options[s] /\ watchPrograms[s] = <<>> /\ watchAccounts[s] = <<>> /\ watchMints[s] = <<>>
  /\ InitDynamic

SingleEntries == ListsUpTo(1)

OpenNext ==
  \/ \E s \in WatchTargets : connect(s)
  \/ \E s \in WatchTargets, outcome \in SchemaOutcomes : connectSchema(s, outcome)
  \/ \E s \in WatchTargets : onOpen(s)
  \/ \E s \in WatchTargets, mints \in SingleEntries : addMints(s, mints)
  \/ \E s \in WatchTargets, mints \in SingleEntries : removeMints(s, mints)
  \/ \E s \in WatchTargets, accounts \in SingleEntries : addAccounts(s, accounts)
  \/ \E s \in WatchTargets, accounts \in SingleEntries : removeAccounts(s, accounts)
  \/ \E s \in WatchTargets : disconnect(s)
  \/ \E s \in WatchTargets : onClose(s)
  \/ \E s \in WatchTargets : onError(s)

OpenSpec == OpenInit /\ [][OpenNext]_vars

\* The spend of the streams: the payments the schema fetches of both
\* streams make and the lease-control events the client of one stream
\* hands to the 'x402' listener.
ChargeTargets == {"swap-quotes"}

ChargeNext ==
  \/ \E s \in ChargeTargets, event \in X402Events : handleX402Event(s, event)
  \/ \E context \in Payments : recordSchemaSpend(context)

ChargeInit == Init /\ renewMethod = "http"

ChargeSpec == ChargeInit /\ [][ChargeNext]_vars

\* the pool lookups of the application: the swap-quotes stream is configured
\* with raw pool identifiers and pair inputs, the lease tokens arrive as the
\* clients emit them, the prompt is submitted, the lookups answer
ConfigAccounts ==
  {<<<<"a">>, <<"S", "/", "U">>>>, <<<<"S", "/", "U">>, <<"U", ":", "s">>>>, <<<<"S", "/">>>>}

\* what is typed into the add-pools prompt
PromptValues ==
  {<<"a">>, <<"a", ",", "S", "/", "U", ",", "U", ":", "s">>, <<"q", " ", "U", ":", "s">>,
   <<"S", "/">>}

PoolInit ==
  /\ renewMethod = "http"
  /\ schemaPath = [s \in Sessions |-> SchemaPaths[2]]
  /\ options = [s \in Sessions |-> FALSE]
  /\ watchPrograms = [s \in Sessions |-> <<>>]
  /\ watchAccounts = [s \in Sessions |-> <<>>]
  /\ watchMints = [s \in Sessions |-> <<>>]
  /\ InitDynamic

PoolNext ==
  \/ \E accounts \in ConfigAccounts : initializeDataSources(accounts)
  \/ resolvePendingPoolPairs
  \/ \E token \in {latestLeaseToken + 1} \cap 1..MaxToken : updateLeaseToken(token)
  \/ resume
  \/ \E value \in PromptValues : promptForSwapPools(value)
  \/ \E i \in 1..Len(lookups) :
       \E outcomes \in [1..Len(lookups[i].pairs) -> LookupOutcomes] : lookupDone(i, outcomes)
  \/ stop

PoolSpec == PoolInit /\ [][PoolNext]_vars

\* one ring buffer of any capacity up to MaxCapacity, pushed to and cleared
RingInit ==
  /\ renewMethod = "http"
  /\ schemaPath = [s \in Sessions |-> SchemaPaths[2]]
  /\ options = [s \in Sessions |-> FALSE]
  /\ watchPrograms = [s \in Sessions |-> <<>>]
  /\ watchAccounts = [s \in Sessions |-> <<>>]
  /\ watchMints = [s \in Sessions |-> <<>>]
  /\ InitProgram
  /\ \E n \in 1..MaxCapacity : RingBuffer(n)

RingNext ==
  \/ \E item \in Items : push(item)
  \/ clear

RingSpec == RingInit /\ [][RingNext]_vars

\* the store by itself: prices, swap quotes and alerts arrive while the clock
\* moves by half a minute or a second more
Prices == {0, 100, 110}
PriceUpdates == {[pairKey |-> pairKey, price |-> price] : pairKey \in PairKeys, price \in Prices}
Notionals == {Undefined, NaN, Infinity, Num(2), Num(5)}
SwapQuotes == {[stream |-> "swap-quotes", notionalUsd |-> notionalUsd] : notionalUsd \in Notionals}
SwapAlerts == {[stream |-> "swap-alerts", notionalUsd |-> notionalUsd] :
                 notionalUsd \in {Undefined, Num(5)}}
Delays == {30, 31}

StoreInit ==
  /\ renewMethod = "http"
  /\ schemaPath = [s \in Sessions |-> SchemaPaths[2]]
  /\ options = [s \in Sessions |-> FALSE]
  /\ watchPrograms = [s \in Sessions |-> <<>>]
  /\ watchAccounts = [s \in Sessions |-> <<>>]
  /\ watchMints = [s \in Sessions |-> <<>>]
  /\ InitDynamic

StoreNext ==
  \/ \E data \in PriceUpdates : updatePrice(data)
  \/ \E swap \in SwapQuotes : addSwapQuote(swap)
  \/ \E swap \in SwapAlerts : addSwapAlert(swap)
  \/ \E seconds \in Delays : tick(seconds)

StoreSpec == StoreInit /\ [][StoreNext]_vars

\* the start of the application: the previews are probed, the dialog is
\* answered, and after a Yes the streams are enabled in turn, connect, open,
\* renew and close while the user toggles them
Amounts == {"5", "abc"}
ProbeResponses ==
  {Probe("network", NoPart, NoPart), Probe("other", NoPart, NoPart),
   Probe("ok", NoPart, Part("invalid", "", "")), Probe("ok", NoPart, Part("unparsable", "", "")),
   Probe("402", NoPart, Part("unparsable", "", "")), Probe("402", NoPart, Part("aborted", "", "")),
   Probe("402", NoPart, NoPart), Probe("402", Part("v2", "", "usdc"), Part("invalid", "", ""))}
  \cup {Probe("ok", NoPart, Part("schema", amount, "usdc")) : amount \in Amounts}
  \cup {Probe("402", Part("v2", amount, "usdc"), NoPart) : amount \in Amounts}
  \cup {Probe("402", NoPart, Part(kind, "5", "usdc")) : kind \in {"v1", "v2"}}

StartFrames == {f \in CoreFrames : f.op = "renewal_reminder"}

StartInit ==
  /\ renewMethod = "http"
  /\ schemaPath = [s \in Sessions |-> SchemaPaths[2]]
  /\ options = [s \in Sessions |-> FALSE]
  /\ watchPrograms = [s \in Sessions |-> <<>>]
  /\ watchAccounts = [s \in Sessions |-> <<>>]
  /\ watchMints = [s \in Sessions |-> <<>>]
  /\ InitDynamic

StartNext ==
  \/ start
  \/ \E s \in Enabled, resp \in ProbeResponses : previewLoaded(s, resp)
  \/ \E yes \in BOOLEAN : answer(yes)
  \/ contextCreated
  \/ enableNext
  \/ \E s \in Sessions : toggleStream(s)
  \/ \E s \in Sessions, outcome \in {"ok", "notOk"} : connectSchema(s, outcome)
  \/ \E s \in Sessions : onOpen(s)
  \/ \E s \in Sessions, frame \in StartFrames : onMessage(s, frame)
  \/ \E s \in Sessions : \E r \in Awaiting(s) : renewHttpDone(s, r, "ok")
  \/ \E s \in Sessions : onClose(s)

StartSpec == StartInit /\ [][StartNext]_vars

\* the watchlists at runtime: the dialog is answered Yes, the streams are
\* enabled and connect, the swap-quotes stream opens, closes and is toggled,
\* while the prompts add and remove mints and pools
ListInputs == {<<<<"a">>>>, <<<<"a">>, <<"b">>>>}

ListNext ==
  \/ start
  \/ \E s \in Enabled : previewLoaded(s, Probe("ok", NoPart, Part("schema", "5", "usdc")))
  \/ answer(TRUE)
  \/ contextCreated
  \/ enableNext
  \/ \E s \in WatchTargets : toggleStream(s)
  \/ \E s \in Sessions : connectSchema(s, "ok")
  \/ \E s \in WatchTargets : onOpen(s)
  \/ \E s \in WatchTargets : onClose(s)
  \/ \E mints \in ListInputs : addWatchMints(mints)
  \/ \E mints \in ListInputs : removeWatchMints(mints)
  \/ \E pools \in {<<<<"a">>>>} : swapPoolsResolved(pools)
  \/ \E pools \in {<<<<"a">>>>} : removeWatchSwapPools(pools)
  \/ \E pools \in {<<<<"a">>>>} : addWatchReservePools(pools)
  \/ \E pools \in {<<<<"a">>>>} : removeWatchReservePools(pools)

ListSpec == StartInit /\ [][ListNext]_vars

\* the path of the events: the dialog is answered Yes, both streams connect
\* and open, frames arrive on both sockets, renewals are answered, and the
\* user pauses and resumes
EventPrices == {100, 110}
Tickers(slot) == {Event("ticker", "token-ticker", "SOL/USDC", price, Undefined, slot) : price \in EventPrices}
Swaps(slot) == {Event("swap-quote", "swap-quotes", "", 0, Num(5), slot)}
Reminders == {X402Event("renewal_reminder", << <<"amount", "3">>, <<"asset", "USDC">> >>, <<>>)}

\* the frames of a socket with what they carry
FramesOf(s) ==
  IF s = "token-ticker"
  THEN {<<Frame("record", "none", "ticker", "none"), event>> : event \in Tickers(Len(arrived[s]) + 1)}
       \cup {<<Frame("record", "none", "status", "string"),
               Event("status", "", "", 0, Undefined, Len(arrived[s]) + 1)>>}
  ELSE {<<Frame("record", "none", "swap-quote", "none"), event>> : event \in Swaps(Len(arrived[s]) + 1)}
       \cup {<<Frame("record", "renewal_reminder", "none", "none"), event>> : event \in Reminders}
       \cup {<<Frame("record", "renewed", "none", "none"), X402Event("renewed", <<>>, <<>>)>>}

EventNext ==
  \/ start
  \/ \E s \in Enabled : previewLoaded(s, Probe("ok", NoPart, Part("schema", "5", "usdc")))
  \/ answer(TRUE)
  \/ contextCreated
  \/ enableNext
  \/ \E s \in Sessions : connectSchema(s, "ok")
  \/ \E s \in Sessions : onOpen(s)
  \/ \E s \in Sessions : \E carried \in FramesOf(s) : message(s, carried[1], carried[2])
  \/ \E s \in Sessions : \E r \in Awaiting(s), outcome \in {"ok", "notOk"} : leaseRenewed(s, r, outcome)
  \/ togglePause

EventSpec == StartInit /\ [][EventNext]_vars

\* the batcher by itself: adds, ticks of the interval and destroy() in any
\* order
BatchNext ==
  \/ \E type \in BatchTypes : add(type, Len(adds) + 1)
  \/ flush
  \/ destroy

BatchSpec == Init /\ [][BatchNext]_vars

\* ---------------------------------------------------------------- claims
Count(k, name) == Cardinality({i \in 1..Len(trace) : trace[i].k = k /\ trace[i].name = name})

\* the renewal requests the last handler issued
Requests == {i \in 1..Len(trace) : trace[i].k = "http" /\ trace[i].name \in {"renew", "challenge"}}

TickerFrame == Frame("record", "none", "ticker", "none")

NoDuplicates(seq) == Cardinality(Range(seq)) = Len(seq)

\* the non-blank entries of an input, trimmed
Trimmed(input) == {trim(input[i]) : i \in 1..Len(input)} \ {<<>>}

AddOps == {"addAccounts", "addMints"}
RemoveOps == {"removeAccounts", "removeMints"}

\* the list an add/remove call works on
ListOf(act, accounts, mints) == IF act \in {"addAccounts", "removeAccounts"} THEN accounts ELSE mints

\* C1: on a session whose socket is open, an add/remove call sends at most
\* one message; the message lists, each once, exactly the entries that
\* changed the watch-set (add: the trimmed incoming entries that were not in
\* the set; remove: those that were); when nothing changes, nothing is sent
\* and both lists stay as they were.
C1_WatchDelta ==
  [][\A s \in Sessions :
       (last'.act \in AddOps \cup RemoveOps /\ last'.s = s /\ ws[s] = "set" /\ sock[s] = "open") =>
         LET before == Range(ListOf(last'.act, watchAccounts[s], watchMints[s]))
             after == Range(ListOf(last'.act, watchAccounts'[s], watchMints'[s]))
             delta == IF last'.act \in AddOps
                      THEN Trimmed(last'.input) \ before
                      ELSE Trimmed(last'.input) \cap before
         IN /\ Len(trace') <= 1
            /\ delta = {} => trace' = <<>> /\ watchAccounts' = watchAccounts /\ watchMints' = watchMints
            /\ delta # {} =>
                 /\ Len(trace') = 1
                 /\ trace'[1].k = "send" /\ trace'[1].name = last'.act
                 /\ Range(trace'[1].list) = delta
                 /\ NoDuplicates(trace'[1].list)
                 /\ after = IF last'.act \in AddOps THEN before \cup delta ELSE before \ delta
                 /\ NoDuplicates(ListOf(last'.act, watchAccounts'[s], watchMints'[s]))
  ]_vars

\* an add on an open socket of which only a part was new
C1_Witness ==
  /\ last.act = "addAccounts"
  /\ Len(trace) = 1
  /\ Len(trace[1].list) < Len(normalizeList(last.input))

C3_DispatchWhileRenewing ==
  \A s \in Sessions :
    inflight[s] # EmptyBag =>
      /\ sock[s] = "open" => ENABLED onMessage(s, TickerFrame)
      /\ (last.act = "onMessage" /\ last.s = s /\ ~isWsX402Event(last.frame)) =>
           /\ isWsEvent(last.frame) => Count("emit", "event") = 1
           /\ isWsStatusEvent(last.frame) => Count("emit", "status") = 1

\* a ticker dispatched while a renewal of the same session awaits
C3_Witness ==
  /\ last.act = "onMessage" /\ last.frame = TickerFrame
  /\ inflight[last.s] # EmptyBag
  /\ Count("emit", "event") = 1

\* C4: while a renewal of session a awaits, whatever its duration, another
\* session b goes on: its frames are dispatched and applied to the store, a
\* renewal of b can start, and a renewal of b that awaits can complete.
C4_SessionsIndependent ==
  \A a \in Sessions, b \in Sessions :
    (a # b /\ inflight[a] # EmptyBag) =>
      /\ sock[b] = "open" => ENABLED onMessage(b, TickerFrame)
      /\ (last.act = "onMessage" /\ last.s = b /\ isWsEvent(last.frame) /\ ~isWsX402Event(last.frame)) =>
           Count("emit", "event") = 1 /\ Count("store", "event") = 1
      /\ (sock[b] = "open" /\ BagCardinality(inflight[b]) < MaxInflight) =>
           ENABLED onMessage(b, Frame("record", "renewal_reminder", "none", "none"))
      /\ \A r \in Awaiting(b) :
           /\ r.stage = "http" => ENABLED renewHttpDone(b, r, "notOk")
           /\ (r.stage = "http" /\ nextToken[b] <= MaxToken) => ENABLED renewHttpDone(b, r, "ok")
           /\ r.stage = "challenge" => ENABLED renewInbandDone(b, r, Challenge(402, TRUE, 2, 1))
           /\ r.stage = "signing" => ENABLED paymentPayloadDone(b, r, Payload(FALSE, TRUE, 2, 1))

\* a renewal of one session completed while a renewal of the other awaits
C4_Witness ==
  \E a \in Sessions :
    /\ inflight[a] # EmptyBag
    /\ last.s \in Sessions \ {a}
    /\ last.act = "renewHttpDone" /\ last.outcome = "ok"

\* the steps in which a renewal attempt ends in failure
RenewalFailed(l) ==
  /\ l.act \in {"renewHttpDone", "renewInbandDone", "paymentPayloadDone"}
  /\ l.outcome # "ok"

\* C5 as stated: in HTTP mode a successful renewal replaces the current
\* token by the response's token, emits 'lease' with it and then sends
\* renew_token with it; the old token is no longer current.
C5_Original ==
  (last.act = "renewHttpDone" /\ last.outcome = "ok") =>
    /\ Len(trace) = 2
    /\ trace[1] = Emit("lease", currentToken[last.s])
    /\ trace[2] = Msg("renew_token", currentToken[last.s], <<>>)
    /\ currentToken[last.s] \notin {0, last.tok, last.prev}

\* C5, amended: in HTTP mode a successful renewal replaces the current token
\* by the response's token and emits 'lease' with it; then, if the socket is
\* still held and open, it sends renew_token with the same token, and
\* otherwise sends nothing; the old token is no longer current.
C5_RenewedTokenSwapped ==
  (last.act = "renewHttpDone" /\ last.outcome = "ok") =>
    /\ trace[1] = Emit("lease", currentToken[last.s])
    /\ IF ws[last.s] = "set" /\ sock[last.s] = "open"
       THEN trace = <<Emit("lease", currentToken[last.s]),
                      Msg("renew_token", currentToken[last.s], <<>>)>>
       ELSE trace = <<Emit("lease", currentToken[last.s])>>
    /\ currentToken[last.s] \notin {0, last.tok, last.prev}

\* a successful HTTP renewal on an open socket
C5_Witness ==
  /\ last.act = "renewHttpDone" /\ last.outcome = "ok"
  /\ Count("send", "renew_token") = 1

\* C6: a renewal attempt that fails emits exactly one 'error' and nothing
\* else, leaves the current token and the socket as they were, and the
\* session still dispatches the frames that follow.
C6_FailureKeepsSession ==
  /\ [][RenewalFailed(last') =>
          /\ trace' = <<Emit("error", 0)>>
          /\ currentToken' = currentToken
          /\ sock' = sock /\ ws' = ws]_vars
  /\ [](\A s \in Sessions :
          (RenewalFailed(last) /\ last.s = s /\ sock[s] = "open") => ENABLED onMessage(s, TickerFrame))

\* a renewal failed on an open socket
C6_Witness ==
  /\ RenewalFailed(last)
  /\ sock[last.s] = "open" /\ ws[last.s] = "set"
  /\ currentToken[last.s] = last.prev

C8_InbandV1Rejected ==
  \A s \in Sessions :
    (renewMethod = "inband" /\ schemaVersion(s) = "v1") => conn[s] = "idle" /\ sock[s] = "none"

\* C9 as stated: a frame causes at most one of the emissions x402, status
\* and event, and none (nor an error) when it does not parse or has none of
\* the shapes.
C9_ExactlyOneClass ==
  last.act = "onMessage" =>
    /\ Count("emit", "x402") + Count("emit", "status") + Count("emit", "event") <= 1
    /\ (~isRecord(last.frame)
        \/ (last.frame.op \notin X402Ops /\ last.frame.type \in {"none", "nonstring"})) => trace = <<>>

\* the messages the "open" handler sends, by name
SentNames == [i \in 1..Len(SelectSeq(trace, LAMBDA e : e.k = "send")) |->
                SelectSeq(trace, LAMBDA e : e.k = "send")[i].name]

InitialMessages == {"setOptions", "setAccounts", "setPrograms", "setMints", "getState"}

\* C10: the "open" handler runs once per connection; it sends the options if
\* configured and each non-empty watch-set once, with its entries, and then
\* getState once, last; no other handler sends any of these messages.
C10_InitialPush ==
  /\ \A s \in Sessions : opens[s] <= 1
  /\ last.act # "onOpen" => \A name \in InitialMessages : Count("send", name) = 0
  /\ last.act = "onOpen" =>
       LET s == last.s
           n == Len(SentNames)
       IN /\ Count("send", "setOptions") = IF options[s] THEN 1 ELSE 0
          /\ Count("send", "setAccounts") = IF watchAccounts[s] # <<>> THEN 1 ELSE 0
          /\ Count("send", "setPrograms") = IF watchPrograms[s] # <<>> THEN 1 ELSE 0
          /\ Count("send", "setMints") = IF watchMints[s] # <<>> THEN 1 ELSE 0
          /\ Count("send", "getState") = 1
          /\ n >= 1 /\ SentNames[n] = "getState"
          /\ \A i \in 1..Len(trace) :
               /\ trace[i].name = "setAccounts" => trace[i].list = watchAccounts[s]
               /\ trace[i].name = "setPrograms" => trace[i].list = watchPrograms[s]
               /\ trace[i].name = "setMints" => trace[i].list = watchMints[s]

\* a socket opened with options and all three watch-sets to push
C10_Witness ==
  /\ last.act = "onOpen"
  /\ Len(SentNames) = 5
  /\ SentNames[5] = "getState"

\* the strings that denote an integer, and the integer each denotes
IntegerTexts == {"0", "3", "5"}
IntegerValue == ("0" :> 0) @@ ("3" :> 3) @@ ("5" :> 5)

\* the non-empty values a hint gives for the keys
HintValues(hint, keys) ==
  {hint[i][2] : i \in {j \in 1..Len(hint) : /\ Len(hint[j]) >= 2
                                             /\ hint[j][1] \in keys
                                             /\ hint[j][2] # ""}}

\* a hint that states one integer amount and an asset
Parsable(hint) ==
  /\ \E text \in IntegerTexts : HintValues(hint, {"amount", "maxAmount"}) = {text}
  /\ HintValues(hint, {"asset"}) # {}

HintAmount(hint) == IntegerValue[CHOOSE text \in IntegerTexts : text \in HintValues(hint, {"amount", "maxAmount"})]

\* the steps in which the 'x402' listener handles a reminder
ReminderHandled(l) ==
  /\ l.act = "handleX402Event"
  /\ l.input.op \in {"renewal_reminder", "payment_required"}

OtherStreamsKept(s) ==
  \A t \in Sessions \ {s} : pendingCharges'[t] = pendingCharges[t] /\ spendTotals'[t] = spendTotals[t]

\* C11: a reminder (renewal_reminder or payment_required) with a parsable
\* price hint makes the hint's amount the pending charge of the stream,
\* whatever was pending before, and leaves the confirmed total at its value
\* (created at 0 if the stream had none); other streams are untouched.
C11_HintIsPending ==
  [][(ReminderHandled(last') /\ Parsable(hintOf(last'.input))) =>
       LET s == last'.s
       IN /\ pendingCharges'[s].amountRaw = HintAmount(hintOf(last'.input))
          /\ pendingCharges'[s].asset # "none"
          /\ spendTotals'[s].totalRaw = spendTotals[s].totalRaw
          /\ spendTotals'[s].asset # "none"
          /\ spendTotals[s] # NoTotal => spendTotals'[s] = spendTotals[s]
          /\ OtherStreamsKept(s)]_vars

\* a hint of 5 replaced a pending charge of 3 on a stream whose total is 3
C11_Witness ==
  /\ ReminderHandled(last)
  /\ last.prev = 3
  /\ pendingCharges[last.s].amountRaw = 5
  /\ spendTotals[last.s].totalRaw = 3

\* the steps in which the 'x402' listener handles `renewed`
RenewedHandled(l) == l.act = "handleX402Event" /\ l.input.op = "renewed"

\* `renewed` moves the pending amount into the total and clears it; without
\* a pending entry it changes nothing
RenewedMovesPending ==
  RenewedHandled(last') =>
    LET s == last'.s
    IN /\ IF pendingCharges[s] # NoCharge
          THEN /\ spendTotals'[s].totalRaw = spendTotals[s].totalRaw + pendingCharges[s].amountRaw
               /\ pendingCharges'[s] = NoCharge
          ELSE pendingCharges' = pendingCharges /\ spendTotals' = spendTotals
       /\ OtherStreamsKept(s)

\* C12 as stated: `renewed` moves the pending amount into the total and
\* clears it, an unmatched `renewed` is a no-op, and the total of a stream
\* is always the sum of the pending amounts `renewed` has consumed.
C12_Original ==
  /\ [][RenewedMovesPending]_vars
  /\ [](\A s \in Sessions : spendTotals[s].totalRaw = consumed[s])

\* C12, amended: `renewed` moves the pending amount into the total and
\* clears it, an unmatched `renewed` is a no-op, and the total of a stream is
\* always the sum of its recorded schema payments and of the pending amounts
\* `renewed` has consumed.
C12_TotalIsChargedPlusConsumed ==
  /\ [][RenewedMovesPending]_vars
  /\ [](\A s \in Sessions : spendTotals[s].totalRaw = charged[s] + consumed[s])

\* `renewed` consumed a pending charge on a stream that had paid for its schema
C12_Witness ==
  /\ RenewedHandled(last)
  /\ last.prev = 5
  /\ pendingCharges[last.s] = NoCharge
  /\ charged[last.s] = 3 /\ consumed[last.s] = 5 /\ spendTotals[last.s].totalRaw = 8

\* the amount string a requirement states
RequirementAmount(r) == IF r.amount # "none" THEN r.amount ELSE r.maxAmountRequired

\* C13: a price hint whose amount is not an integer or is missing, or whose
\* asset is missing, changes neither the pending entry nor the total; a
\* payment whose requirement states an amount that is not an integer adds
\* nothing to any total.
C13_UnparsableDiscarded ==
  [][/\ (ReminderHandled(last') /\ ~Parsable(hintOf(last'.input))) =>
          pendingCharges' = pendingCharges /\ spendTotals' = spendTotals
     /\ (last'.act = "recordSchemaSpend"
         /\ RequirementAmount(last'.input.selectedRequirements) \notin IntegerTexts) =>
          spendTotals' = spendTotals /\ pendingCharges' = pendingCharges]_vars

\* a hint with the amount 1.5 arrived while 3 was pending
C13_Witness ==
  /\ ReminderHandled(last)
  /\ HintValues(hintOf(last.input), {"amount", "maxAmount"}) = {"1.5"}
  /\ last.prev = 3
  /\ pendingCharges[last.s].amountRaw = 3

\* no step of the session can fetch a schema or open a socket
NoReconnect(s) ==
  /\ ~ENABLED connect(s)
  /\ \A outcome \in SchemaOutcomes : ~ENABLED connectSchema(s, outcome)
  /\ ~ENABLED onOpen(s)

\* C14: when the schema fetch of connect() fails (not OK, invalid body, no
\* token in the socket URL, another stream's schema), the caller records the
\* error, no socket exists, no 'connected' is emitted, the stream is not
\* connected, and the session does not fetch or connect again.
C14_ConnectFailureIsTerminal ==
  /\ (last.act = "connectSchema" /\ last.outcome # "ok") =>
       /\ trace = <<Eff("state", "lastError", 0, <<>>)>>
       /\ conn[last.s] # "idle"
  /\ \A s \in Sessions :
       conn[s] \notin {"idle", "fetching", "done"} =>
         /\ sock[s] = "none" /\ ws[s] = "null" /\ opens[s] = 0
         /\ ~connected[s]
         /\ currentToken[s] = 0
         /\ NoReconnect(s)

\* the schema fetch returned the schema of another stream
C14_Witness ==
  /\ last.act = "connectSchema" /\ last.outcome = "mismatch"
  /\ conn[last.s] = "failed" /\ sock[last.s] = "none"

\* C15: once the socket of a session has closed the stream is marked
\* disconnected, and from the moment it errors, closes or is being closed
\* the session never fetches a schema or opens a socket again; once it has
\* closed no frame is handled, so no renewal starts either.
C15_NoReconnect ==
  \A s \in Sessions :
    /\ sock[s] \in {"closing", "aborted", "closed"} => NoReconnect(s)
    /\ sock[s] = "closed" =>
         /\ ~connected[s]
         /\ \A frame \in CoreFrames : ~ENABLED onMessage(s, frame)

\* a socket that had been open closed after an error
C15_Witness ==
  /\ last.act = "onClose"
  /\ opens[last.s] = 1 /\ ws[last.s] = "set"
  /\ sock[last.s] = "closed" /\ ~connected[last.s]

\* C16 as stated: after disconnect() or after the socket has closed the
\* session holds no lease token, and a reminder handled afterwards starts no
\* renewal.
C16_TokenDiscarded ==
  /\ \A s \in Sessions :
       ((conn[s] = "done" /\ ws[s] = "null") \/ sock[s] = "closed") => currentToken[s] = 0
  /\ (last.act = "onMessage" /\ ws[last.s] = "null") => Requests = {}

\* C17 as stated: once stop() has run, no resolver that waitForLeaseToken
\* registered is still waiting.
C17_NoWaiterAfterStop == stopped => leaseTokenWaiters = 0

\* how many lookups were issued for one awaited pair
LookupsOf(asked) == Cardinality({i \in 1..Len(lookedUp) : lookedUp[i] = asked})

\* a lease token is known and nothing is ready to run or awaiting an answer
TokenSettled == latestLeaseToken # 0 /\ microtasks = <<>> /\ lookups = <<>>

\* C18 as stated: a pair submitted while no lease token was known (in the
\* configuration or in the add-pools prompt) has been looked up exactly once
\* when a token is known and the application has settled.
C18_PairNotLost == TokenSettled => \A asked \in awaited : LookupsOf(asked) = 1

\* the failures among the outcomes of the requests of one lookup
Failures == {"notOk", "invalid", "network"}

\* the pools the service returned for the pairs of a lookup
PoolsFound(lookup, outcomes) ==
  UNION {Range(PoolsOf(lookup.pairs[i])) :
           i \in {j \in 1..Len(lookup.pairs) : outcomes[j] = "found"}}

\* C19: when the answers of a lookup arrive, each failure is logged and
\* nothing else is reported; the watch-set and the swap-quotes session then
\* hold what they held, the raw identifiers of the input and the pools found
\* for the pairs whose request succeeded, whatever the other requests did.
C19_LookupNeverFatal ==
  [][last'.act = "lookupDone" =>
       LET lookup == last'.input.lookup
           outcomes == last'.input.outcomes
           failed == {i \in 1..Len(lookup.pairs) : outcomes[i] \in Failures}
           merged == Range(lookup.poolIds) \cup PoolsFound(lookup, outcomes)
       IN /\ Range(watchSwapPools') = Range(watchSwapPools) \cup merged
          /\ Range(watchAccounts'["swap-quotes"]) =
               Range(watchAccounts["swap-quotes"]) \cup (merged \ Range(watchSwapPools))
          /\ Len(trace') = Cardinality(failed)
          /\ \A i \in 1..Len(trace') : trace'[i].k = "log"
          /\ leaseTokenWaiters' = leaseTokenWaiters /\ microtasks' = <<>>]_vars

\* one request of a prompt's lookup failed, the other found a pool, and the
\* raw identifier and that pool are in the watch-set
C19_Witness ==
  /\ last.act = "lookupDone"
  /\ last.input.lookup.poolIds = <<<<"a">>>>
  /\ \E i, j \in 1..Len(last.input.lookup.pairs) :
       /\ last.input.outcomes[i] \in Failures
       /\ last.input.outcomes[j] = "found"
       /\ Range(PoolsOf(last.input.lookup.pairs[j])) \subseteq Range(watchSwapPools)
  /\ <<"a">> \in Range(watchSwapPools)

\* the smaller of two numbers
Min(a, b) == IF a <= b THEN a ELSE b

\* the last n items of a sequence
LastItems(seq, n) == SubSeq(seq, Len(seq) - n + 1, Len(seq))

\* C20: after k pushes into a buffer of capacity N (none cleared), length is
\* min(k, N), never more than N, and toArray() is the last min(k, N) items
\* pushed, in the order they were pushed; after N + 1 pushes its first item
\* is the second item pushed.
C20_LastItemsInOrder ==
  /\ length = Min(Len(pushed), capacity)
  /\ length <= capacity
  /\ toArray = LastItems(pushed, Min(Len(pushed), capacity))
  /\ Len(pushed) = capacity + 1 => toArray[1] = pushed[2]

\* three items went into a buffer of capacity two, the first was evicted
C20_Witness ==
  /\ last.act = "push"
  /\ capacity = 2 /\ Len(pushed) = 3
  /\ pushed[1] # pushed[2] /\ pushed[2] # pushed[3]
  /\ toArray = <<pushed[2], pushed[3]>>

\* the calls of one method of the store
CallsOf(method) == SelectSeq(calls, LAMBDA call : call.method = method)

\* C21 as stated: the swaps-per-minute value read from the store at any time
\* counts the swap insertions later than that time minus 60 seconds, and the
\* alerts-per-minute value the alert insertions.
C21_RateIsTrailingMinute ==
  /\ getStats.swapsPerMinute =
       Len(SelectSeq(CallsOf("addSwapQuote"), LAMBDA call : call.at > now - Window))
  /\ getStats.alertsPerMinute =
       Len(SelectSeq(CallsOf("addSwapAlert"), LAMBDA call : call.at > now - Window))

\* C22: updatePrice stores the new price of the pair with changePct =
\* (new - old) / old * 100 against the price stored before, undefined when
\* no price was stored or the stored price was 0, and leaves the entries of
\* the other pairs as they were.
C22_ChangeAgainstPrevious ==
  [][last'.act = "updatePrice" =>
       LET data == last'.input
           old == store.prices[data.pairKey]
           new == store'.prices[data.pairKey]
       IN /\ new.has /\ new.price = data.price
          /\ IF old.has /\ old.price # 0
             THEN /\ new.changePct.kind = "number"
                  /\ new.changePct.num * old.price =
                       (data.price - old.price) * 100 * new.changePct.den
             ELSE new.changePct = NoQuotient
          /\ \A other \in PairKeys \ {data.pairKey} :
               store'.prices[other] = store.prices[other]]_vars

\* a price of 110 arrived for a pair whose stored price was 100, while the
\* other pair had a price: the change is 10 percent
C22_Witness ==
  /\ last.act = "updatePrice" /\ last.input.price = 110
  /\ \E i \in 1..Len(calls) - 1 :
       /\ calls[i].method = "updatePrice"
       /\ calls[i].data = [pairKey |-> last.input.pairKey, price |-> 100]
       /\ \A j \in (i + 1)..(Len(calls) - 1) : calls[j].data.pairKey # last.input.pairKey
  /\ \E other \in PairKeys \ {last.input.pairKey} : store.prices[other].has
  /\ LET changePct == store.prices[last.input.pairKey].changePct
     IN changePct.kind = "number" /\ changePct.num = 10 * changePct.den

\* the finite notional values of a sequence of swap-quote calls
FiniteNotionals(quotes) ==
  {i \in 1..Len(quotes) : quotes[i].data.notionalUsd.kind = "number"}

\* the sum of the finite notional values
RECURSIVE SumNotional(_)
SumNotional(quotes) ==
  IF quotes = <<>> THEN 0
  ELSE (IF Head(quotes).data.notionalUsd.kind = "number"
        THEN Head(quotes).data.notionalUsd.value ELSE 0) + SumNotional(Tail(quotes))

\* C28: totalSwaps and totalSwapAlerts count the calls of addSwapQuote and
\* addSwapAlert and are not capped by the rings; totalNotionalUsd is the sum
\* of the finite notional values of the swap quotes and largestSwapUsd their
\* maximum, undefined when there is none; the alerts add to neither.
C28_TotalsCountEveryCall ==
  LET quotes == CallsOf("addSwapQuote")
      alerts == CallsOf("addSwapAlert")
      finite == FiniteNotionals(quotes)
  IN /\ getStats.totalSwaps = Len(quotes)
     /\ getStats.totalSwapAlerts = Len(alerts)
     /\ getStats.totalSwaps >= Len(store.swaps)
     /\ getStats.totalSwapAlerts >= Len(store.swapAlerts)
     /\ getStats.totalNotionalUsd = SumNotional(quotes)
     /\ IF finite = {} THEN getStats.largestSwapUsd = Undefined
        ELSE /\ getStats.largestSwapUsd.kind = "number"
             /\ \E i \in finite :
                  getStats.largestSwapUsd.value = quotes[i].data.notionalUsd.value
             /\ \A i \in finite :
                  getStats.largestSwapUsd.value >= quotes[i].data.notionalUsd.value

\* three swap quotes of 5, 2 and a non-finite notional went into a ring of two
C28_Witness ==
  /\ getStats.totalSwaps = 3 /\ Len(store.swaps) = SwapHistoryLength
  /\ getStats.totalNotionalUsd = 7 /\ getStats.largestSwapUsd = Num(5)
  /\ calls[1].data.notionalUsd = Num(5) /\ calls[2].data.notionalUsd = Num(2)
  /\ calls[3].data.notionalUsd \in {NaN, Infinity}

\* the confirmation dialog has not been answered Yes
NotAccepted == phase \in {"new", "loading", "asking", "declined"}

\* the requests and socket operations of the last handler that belong to a
\* paid session
PaidEffects ==
  {i \in DOMAIN trace :
     \/ trace[i].k = "http" /\ trace[i].name # "preview"
     \/ trace[i].k = "send"}

\* C23: until the confirmation dialog is answered Yes there is no payment
\* context, no stream client, no schema fetch, no renewal and no socket; the
\* only requests are the unpaid probes.  After a No every stream is
\* disabled, and the application stays in that state: no step changes
\* anything any more.
C23_NoPaymentBeforeYes ==
  /\ [](NotAccepted =>
         /\ ~x402Context
         /\ ~shortcuts
         /\ PaidEffects = {}
         /\ \A s \in Sessions :
              /\ clients[s] = "none" /\ conn[s] = "idle"
              /\ ws[s] = "null" /\ sock[s] = "none" /\ opens[s] = 0
              /\ inflight[s] = EmptyBag /\ currentToken[s] = 0
              /\ pendingCharges[s] = NoCharge /\ spendTotals[s] = NoTotal)
  /\ [](phase = "declined" => \A s \in Sessions : ~enabled[s] /\ ~connected[s])
  /\ [][phase = "declined" => phase' = "declined"]_vars

\* the dialog was shown and answered No
C23_Witness ==
  /\ phase = "declined"
  /\ last.act = "answer" /\ last.outcome = "no"
  /\ \A s \in Sessions : ~enabled[s] /\ clients[s] = "none"

\* the probes that fail: the ones that throw and the challenge nothing can
\* be decoded from
FailingProbes ==
  {resp \in ProbeResponses :
     \/ fetchStreamChargePreview(resp).threw
     \/ fetchStreamChargePreview(resp).amountRaw = ""}

\* C24: whatever the probe of a stream returns, the stream gets a preview;
\* a probe that fails (network error, a status that is neither ok nor 402,
\* an invalid schema body, an undecodable challenge) gives the preview
\* "unknown" with a null amount, the previews of the other streams stay as
\* they are, and when the last probe has ended the dialog is shown.
C24_PreviewNeverBlocks ==
  [][last'.act = "previewLoaded" =>
       /\ previews'[last'.s].state = "loaded"
       /\ last'.input \in FailingProbes => previews'[last'.s] = UnknownPreview
       /\ \A other \in Sessions \ {last'.s} : previews'[other] = previews[other]
       /\ (\A s \in Enabled : previews'[s].state = "loaded") => phase' = "asking"
  ]_vars

\* the dialog is shown although the probe of one stream met a network error
\* and the other an undecodable challenge
C24_Witness ==
  /\ phase = "asking"
  /\ last.act = "previewLoaded"
  /\ last.input = Probe("402", NoPart, Part("unparsable", "", ""))
  /\ \E s \in Enabled : s # last.s /\ previews[s] = UnknownPreview
  /\ previews[last.s] = UnknownPreview

\* the watchlist methods of the application
ListOps ==
  {"addWatchMints", "removeWatchMints", "addWatchSwapPools", "removeWatchSwapPools",
   "addWatchReservePools", "removeWatchReservePools"}

\* the messages that carry a change of a watch-set
DeltaOps == {"addMints", "removeMints", "addAccounts", "removeAccounts"}

\* C25: a watchlist method of the application (add or remove, on mints,
\* swap pools or reserve pools) leaves every connection as it is: no schema
\* fetch, no renewal, no payment, no socket opened or closed, no stream
\* enabled or disabled, the lease and the spend ledger untouched.  All it
\* does besides updating the watch-sets is to send at most one delta message,
\* and only on a socket that is already open.
C25_WatchlistChangeIsFree ==
  [][last'.act \in ListOps =>
       /\ UNCHANGED <<configVars, conn, ws, sock, currentToken, renewUrl, urlToken, inflight,
                      nextToken, replaced, opens, inbandSent, chargeVars, connected,
                      startVars, latestLeaseToken>>
       /\ Len(trace') <= 1
       /\ \A i \in DOMAIN trace' : trace'[i].k = "send" /\ trace'[i].name \in DeltaOps
       /\ trace' # <<>> =>
            /\ clients["swap-quotes"] = "set"
            /\ ws["swap-quotes"] = "set" /\ sock["swap-quotes"] = "open"
  ]_vars

\* a mint was removed while the socket of the swap-quotes stream was open,
\* and the removal was sent on it
C25_Witness ==
  /\ last.act = "removeWatchMints"
  /\ sock["swap-quotes"] = "open"
  /\ trace = <<Msg("removeMints", 0, <<<<"a">>>>)>>
  /\ appWatchMints = <<<<"b">>>>

\* the renew_inband messages among the effects of a handler
InbandMessages(effects) ==
  {i \in DOMAIN effects : effects[i].k = "send" /\ effects[i].name = "renew_inband"}

\* the calls of a session that wait for createPaymentPayload
Signing(bag, s) == {r \in BagToSet(bag[s]) : r.stage = "signing"}

\* C26: in in-band renewal a payload is requested only for a challenge that
\* came with status 402, decodes, has version 2 and accepts at least one
\* requirement; renew_inband is sent only for such a challenge and only when
\* createPaymentPayload returned a well-formed payload of version 2.  In
\* every other case the handler emits one 'error' event and sends nothing.
C26_InbandVersionsChecked ==
  [][/\ last'.act = "renewInbandDone" =>
          IF /\ last'.input.status = 402 /\ last'.input.decodable
             /\ last'.input.ver = 2 /\ last'.input.n >= 1
          THEN trace' = <<Eff("sign", "createPaymentPayload", 0, <<>>)>>
          ELSE trace' = <<Emit("error", 0)>> /\ Signing(inflight', last'.s) = Signing(inflight, last'.s)
     /\ last'.act = "paymentPayloadDone" =>
          IF ~last'.input.throws /\ last'.input.shapeOk /\ last'.input.ver = 2
          THEN /\ \A i \in DOMAIN trace' : i \in InbandMessages(trace')
               /\ Len(trace') = IF ws[last'.s] = "set" /\ sock[last'.s] = "open" THEN 1 ELSE 0
          ELSE trace' = <<Emit("error", 0)>>
     /\ InbandMessages(trace') # {} =>
          /\ last'.act = "paymentPayloadDone"
          /\ \E r \in Signing(inflight, last'.s) : r.tok = last'.tok /\ r.n >= 1
     /\ \A s \in Sessions :
          Signing(inflight', s) \ Signing(inflight, s) # {} =>
            last'.act = "renewInbandDone" /\ last'.s = s /\ last'.input.ver = 2
  ]_vars

\* a well-formed payload of version 1 came back for a version 2 challenge
\* while the socket was open: it was rejected with an 'error' event
C26_Witness ==
  /\ last.act = "paymentPayloadDone"
  /\ last.input = Payload(FALSE, TRUE, 1, 1)
  /\ sock[last.s] = "open"
  /\ trace = <<Emit("error", 0)>>

\* C29 as stated: the requirement sent in renew_inband is the requirement
\* the payload sent with it was signed for.
C29_RequirementMatchesPayload ==
  \A i \in InbandMessages(trace) : trace[i].list = <<trace[i].tok>>

\* the entries of handled of one socket, in the order they were written
RECURSIVE HandledOf(_, _)
HandledOf(entries, s) ==
  IF entries = <<>> THEN <<>>
  ELSE (IF Head(entries).s = s THEN <<Head(entries).slot>> ELSE <<>>) \o HandledOf(Tail(entries), s)

Increasing(slots) == \A i, j \in DOMAIN slots : i < j => slots[i] < slots[j]

\* the frames of a socket that had to be applied: every lease-control frame,
\* and every domain event with a method of the store that came while running
Due(s) ==
  {i \in DOMAIN arrived[s] :
     \/ isWsX402Event(arrived[s][i].frame)
     \/ /\ isWsEvent(arrived[s][i].frame)
        /\ ~arrived[s][i].paused
        /\ arrived[s][i].event.type \in {"ticker", "swap-quote"}}

\* C27: the frames of one socket are applied in the order they arrived,
\* domain events to the store and lease-control events to the ledger, also
\* with a renewal of the socket in flight: the applied frames of a socket
\* are its due frames in arrival order, a frame is applied in the step it
\* arrives in, and the swaps in the store and the calls of the store are in
\* arrival order.
C27_SocketOrderPreserved ==
  /\ [](/\ \A s \in Sessions :
             /\ Increasing(HandledOf(handled, s))
             /\ {HandledOf(handled, s)[i] : i \in DOMAIN HandledOf(handled, s)} = Due(s)
        /\ Increasing([i \in DOMAIN store.swaps |-> store.swaps[i].slot])
        /\ \A s \in Sessions : \A i, j \in DOMAIN calls :
             (i < j /\ calls[i].data.stream = s /\ calls[j].data.stream = s)
               => calls[i].data.slot < calls[j].data.slot)
  /\ [][/\ handled' # handled =>
             /\ last'.act = "message"
             /\ handled' = Append(handled, Handling(last'.s, Len(arrived'[last'.s]),
                                                  IF isWsX402Event(last'.frame) THEN "ledger" ELSE "store"))
        /\ (last'.act = "message" /\ isWsX402Event(last'.frame)) =>
             /\ pendingCharges' = ledgerAfter(last'.s, last'.input).pendingCharges
             /\ spendTotals' = ledgerAfter(last'.s, last'.input).spendTotals
       ]_vars

\* a reminder started a renewal on the swap-quotes socket, and while that
\* renewal was in flight two more frames of the socket were applied, after
\* a ticker of the other socket
C27_Witness ==
  /\ inflight["swap-quotes"] # EmptyBag
  /\ Len(handled) = 3
  /\ handled[1] = Handling("swap-quotes", 1, "ledger")
  /\ handled[2].s = "swap-quotes" /\ handled[3].s = "swap-quotes"
  /\ handled[3].to = "store"
  /\ store.swaps # <<>>

\* C30: while paused, a domain event of any stream leaves the store
\* unchanged and is never applied later, not on resume either; lease
\* renewals, the distribution of the lease token, status updates and the
\* spend ledger go on while paused.
C30_PausedEventsDropped ==
  /\ [](\A i \in DOMAIN handled :
          handled[i].to = "store" => ~arrived[handled[i].s][handled[i].slot].paused)
  /\ [][/\ (last'.act = "message" /\ paused /\ ~isWsX402Event(last'.frame)) =>
             /\ store' = store /\ calls' = calls /\ handled' = handled
             /\ isWsStatusEvent(last'.frame) => Emit("status", 0) \in Range(trace')
        /\ last'.act = "togglePause" => store' = store /\ calls' = calls /\ handled' = handled
        /\ (last'.act = "message" /\ paused /\ isWsX402Event(last'.frame)) =>
             /\ pendingCharges' = ledgerAfter(last'.s, last'.input).pendingCharges
             /\ spendTotals' = ledgerAfter(last'.s, last'.input).spendTotals
             /\ handleX402(last'.s, last'.frame) = "http" =>
                  Http("renew", currentToken[last'.s]) \in Range(trace')
        /\ (last'.act = "leaseRenewed" /\ paused /\ last'.outcome = "ok") =>
             /\ latestLeaseToken' = currentToken'[last'.s]
             /\ latestLeaseToken' # last'.tok
             /\ Emit("lease", latestLeaseToken') \in Range(trace')
       ]_vars

\* a swap quote arrived while paused and was dropped, a reminder that
\* arrived while paused reached the ledger, and after the resume the store
\* is still empty
C30_Witness ==
  /\ ~paused
  /\ last.act = "togglePause"
  /\ \E i \in DOMAIN arrived["swap-quotes"] :
       /\ arrived["swap-quotes"][i].paused
       /\ arrived["swap-quotes"][i].frame.type = "swap-quote"
  /\ \E i \in DOMAIN handled :
       handled[i].to = "ledger" /\ arrived[handled[i].s][handled[i].slot].paused
  /\ pendingCharges["swap-quotes"] # NoCharge
  /\ store.swaps = <<>> /\ calls = <<>>

\* what the callback has received of one type, in the order received
RECURSIVE DeliveredOf(_, _)
DeliveredOf(batches, type) ==
  IF batches = <<>> THEN <<>> ELSE Head(batches)[type] \o DeliveredOf(Tail(batches), type)

\* the data passed to add under one type, in the order of the calls
RECURSIVE AddedOf(_, _)
AddedOf(sofar, type) ==
  IF sofar = <<>> THEN <<>>
  ELSE (IF Head(sofar).type = type THEN <<Head(sofar).data>> ELSE <<>>) \o AddedOf(Tail(sofar), type)

\* C38: every update added before destroy() reaches the flush callback
\* exactly once, in the order added within its type, with the first flush
\* after it; a flush with nothing accumulated does not call the callback;
\* destroy() clears the interval and delivers what is accumulated.
C38_BatcherDeliversOnce ==
  /\ [](/\ \A type \in BatchTypes :
             DeliveredOf(flushed, type) \o updates[type] = AddedOf(adds, type)
        /\ \A i \in DOMAIN flushed : flushed[i] # NoUpdates
        /\ flushInterval = "null" =>
             \A i \in DOMAIN adds :
               ~adds[i].destroyed => adds[i].data \in Range(DeliveredOf(flushed, adds[i].type)))
  /\ [][/\ last'.act \in {"flush", "destroy"} =>
             IF updates = NoUpdates
             THEN flushed' = flushed /\ updates' = NoUpdates
             ELSE flushed' = Append(flushed, updates) /\ updates' = NoUpdates
        /\ last'.act = "destroy" => flushInterval' = "null"
        /\ last'.act = "flush" => flushInterval = "set"
        /\ flushed' # flushed => last'.act \in {"flush", "destroy"}
       ]_vars

\* two prices and a stat went out in one batch in the order added, a later
\* update went out with destroy()
C38_Witness ==
  /\ last.act = "destroy" /\ last.outcome = "batch"
  /\ flushInterval = "null"
  /\ Len(flushed) = 2
  /\ flushed[1] = [type \in BatchTypes |-> IF type = "price" THEN <<1, 3>> ELSE <<2>>]
  /\ updates = NoUpdates

\* C32 as stated: a session never has two renewals in flight at once, and a
\* frame that arrives while a renewal awaits starts no second request for
\* the same token.
C32_OneRenewalInFlight ==
  \A s \in Sessions :
    /\ BagCardinality(inflight[s]) <= 1
    /\ \A r \in BagToSet(inflight[s]) : CopiesIn(r, inflight[s]) = 1

\* C33 as stated: while a session is disconnected (disconnect() has set
\* this.ws to null) none of its handlers starts a paid renewal and none
\* emits 'lease'.
C33_QuietAfterDisconnect ==
  [][\A s \in Sessions :
       (currentToken[s] # 0 /\ ws[s] = "null" /\ ws'[s] = "null" /\ last'.s = s) =>
         \A i \in DOMAIN trace' :
           /\ trace'[i] # Http("renew", trace'[i].tok)
           /\ trace'[i] # Emit("lease", trace'[i].tok)
    ]_vars

\* C31 as stated: once disableStream(s) has been called, also during the
\* schema fetch of connect(), no socket of s is open or being opened and
\* the stream state of s stays connected=false until s is enabled again.
C31_DisableIsEffective ==
  \A s \in Sessions :
    (clients[s] = "deleted" /\ ~enabled[s]) =>
      /\ sock[s] \notin {"connecting", "open"}
      /\ ~connected[s]

\* the pairs of the configuration that were queued at startup
Queued == {asked \in awaited : asked.origin = "config"}

\* the pairs that are still in pendingSwapPoolPairs
StillPending == Range(Asked("config", resolveInput(pendingSwapPoolPairs).pairs))

\* C35: a pair queued at startup is taken by exactly one run of
\* resolvePendingPoolPairs, however the runs started by lease events and by
\* the end of startup overlap: it is either still pending and not looked
\* up, or taken and looked up once; only the run that takes the pairs
\* issues a lookup for them, and it leaves none pending; with a token known
\* and nothing left to run, no pair is pending.
C35_PendingPairTakenOnce ==
  /\ [](/\ \A asked \in Queued :
             IF asked \in StillPending THEN LookupsOf(asked) = 0 ELSE LookupsOf(asked) = 1
        /\ (latestLeaseToken # 0 /\ microtasks = <<>> /\ leaseTokenWaiters = 0 /\ started # "new")
             => pendingSwapPoolPairs = <<>>)
  /\ [][\A asked \in Queued :
          LookupsOf(asked)' # LookupsOf(asked) =>
            /\ last'.act = "resume" /\ last'.outcome = "afterWait"
            /\ asked \in StillPending
            /\ pendingSwapPoolPairs' = <<>>
       ]_vars

\* the end of startup registered a waiter, a lease event resumed it and
\* started a second run, the first run took the pairs and the second found
\* none
C35_Witness ==
  /\ last.act = "resume" /\ last.outcome = "afterWait"
  /\ trace = <<>>
  /\ started = "done"
  /\ Queued # {}
  /\ \A asked \in Queued : LookupsOf(asked) = 1
  /\ pendingSwapPoolPairs = <<>>

\* C36 as stated, for the case it names: no lease token was issued (every
\* connect() failed), the last call of initializeDataSources was made, every
\* continuation has run and every request is answered; then nothing of
\* startup is still waiting, so start() has returned.
C36_StartupTerminates ==
  (latestLeaseToken = 0 /\ started = "done" /\ microtasks = <<>> /\ lookups = <<>>)
    => leaseTokenWaiters = 0

\* the stream a resource url names as a schema fetch, "" for any other url
SchemaStreamOf(url) ==
  IF url = TickerSchema THEN "token-ticker" ELSE IF url = QuotesSchema THEN "swap-quotes" ELSE ""

\* by how much the confirmed total of a stream grows in a step
Growth(s) == spendTotals'[s].totalRaw - spendTotals[s].totalRaw

\* C37: the payment-creation hook adds a schema payment once, to the stream
\* its schema url names and to no other, and adds nothing for a payment
\* whose resource is a renewal url or no schema url; a renewal amount is
\* added only by the `renewed` event of its stream, which clears the pending
\* entry it added, so nothing is added twice.
C37_PaymentCountedOnce ==
  [][/\ last'.act = "recordSchemaSpend" =>
         LET url == extractX402ResourceUrl(last'.input)
             charge == parsePaymentCharge(last'.input.selectedRequirements)
         IN /\ pendingCharges' = pendingCharges /\ consumed' = consumed
            /\ \A s \in Sessions :
                 Growth(s) = IF s = SchemaStreamOf(url) THEN charge.amountRaw ELSE 0
            /\ "renew" \in Range(url) => spendTotals' = spendTotals
     /\ last'.act = "handleX402Event" =>
         /\ charged' = charged
         /\ \A s \in Sessions :
              Growth(s) = IF s = last'.s /\ last'.input.op = "renewed"
                          THEN pendingCharges[s].amountRaw ELSE 0
         /\ last'.input.op = "renewed" => pendingCharges'[last'.s] = NoCharge
     /\ \A s \in Sessions :
          Growth(s) # 0 => last'.act \in {"recordSchemaSpend", "handleX402Event"}
    ]_vars

\* a schema payment and a renewal were counted for swap-quotes, and the hook
\* was then called for the payment of a renewal and added nothing
C37_Witness ==
  /\ last.act = "recordSchemaSpend"
  /\ last.input.paymentRequired = <<"v2", "renew", "stream", "token-ticker">>
  /\ charged["swap-quotes"] = 3 /\ consumed["swap-quotes"] = 3
  /\ spendTotals["swap-quotes"].totalRaw = 6
  /\ spendTotals["token-ticker"] = NoTotal

\* C34 as stated: between handlers, the watch accounts of every live
\* swap-quotes session (its socket is open) are the application's swap
\* pools, and its watch mints are the application's mints, after any
\* interleaving of enabling, disabling, adding, removing and resolving.
C34_LiveSessionsFollowTheSets ==
  \A s \in WatchTargets :
    (sock[s] = "open") =>
      /\ Range(watchAccounts[s]) = Range(watchSwapPools)
      /\ Range(watchMints[s]) = Range(appWatchMints)
====
